---- MODULE Spec2Model ----
(***************************************************************************)
(* A model of the puzzle-solver crate: the declarative Puzzle, the search  *)
(* state PuzzleSearch with its reference-counted candidate sets, the       *)
(* built-in constraints (AllDifferent, Equality, Unify) and the            *)
(* constrain/solve loop.                                                   *)
(*                                                                         *)
(* A Vec of length n is a function on 0..n-1, VarToken(i) is the number i, *)
(* a BitSet is a set of numbers, an Rc<BTreeSet<Val>> is an address into   *)
(* heap, whose cells hold the set and its strong count.                    *)
(***************************************************************************)
EXTENDS Integers, Sequences, FiniteSets, TLC

\* ------------------------------------------------------------------------
\* Bounds of the model.
\* ------------------------------------------------------------------------
\* The largest number of variables a puzzle declares.
MaxVars == 3
\* Candidates are drawn from 1..MaxVal.
MaxVal == 3
\* The largest number of edits (set_value, insert_candidates, ...) applied
\* to the initial candidates of the variable declared last.
MaxEdits == 2
\* The largest number of constraints registered on a puzzle.
MaxCons == 2
\* The largest numerator (in absolute value) and the largest denominator of a
\* coefficient or constant of an expression built step by step.
MaxCoef == 2

\* ------------------------------------------------------------------------
\* Vec helpers.
\* ------------------------------------------------------------------------
EmptyVec == [i \in {} |-> 0]
VLen(v) == Cardinality(DOMAIN v)
VPush(v, x) == [i \in 0..VLen(v) |-> IF i < VLen(v) THEN v[i] ELSE x]
Min(S) == CHOOSE x \in S : \A y \in S : x <= y
Max(S) == CHOOSE x \in S : \A y \in S : x >= y
\* The elements of a set of numbers in ascending order (BTreeSet and BitSet
\* iteration).
RECURSIVE Ascending(_)
Ascending(S) == IF S = {} THEN <<>> ELSE <<Min(S)>> \o Ascending(S \ {Min(S)})
\* All the orders a HashMap over the key set S may be iterated in.
Orders(S) == {o \in [1..Cardinality(S) -> S] : \A x \in S : \E i \in DOMAIN o : o[i] = x}

\* ------------------------------------------------------------------------
\* Coef: num_rational::Rational32, kept reduced with a positive denominator.
\* ------------------------------------------------------------------------
Abs(x) == IF x < 0 THEN -x ELSE x
RECURSIVE Gcd(_, _)
Gcd(a, b) == IF b = 0 THEN a ELSE Gcd(b, a % b)
Ratio_new(n, d) ==
    LET s == IF d < 0 THEN -1 ELSE 1
        g == Gcd(Abs(n), Abs(d))
    IN [numer |-> (s * n) \div g, denom |-> (s * d) \div g]
Ratio_from_integer(n) == [numer |-> n, denom |-> 1]
Ratio_zero == Ratio_from_integer(0)
Ratio_one == Ratio_from_integer(1)
Ratio_add(a, b) == Ratio_new(a.numer * b.denom + b.numer * a.denom, a.denom * b.denom)
Ratio_neg(a) == [numer |-> -a.numer, denom |-> a.denom]
Ratio_sub(a, b) == Ratio_add(a, Ratio_neg(b))
Ratio_mul(a, b) == Ratio_new(a.numer * b.numer, a.denom * b.denom)
Ratio_div(a, b) == Ratio_new(a.numer * b.denom, a.denom * b.numer)
Ratio_is_zero(a) == a.numer = 0
Ratio_is_integer(a) == a.denom = 1
Ratio_le(a, b) == a.numer * b.denom <= b.numer * a.denom
Ratio_gt(a, b) == ~Ratio_le(a, b)
Ratio_floor(a) == Ratio_from_integer(a.numer \div a.denom)
Ratio_ceil(a) == Ratio_from_integer(-((-a.numer) \div a.denom))
\* to_integer truncates towards zero.
Ratio_to_integer(a) ==
    IF a.numer >= 0 THEN a.numer \div a.denom ELSE -((-a.numer) \div a.denom)

\* ------------------------------------------------------------------------
\* LinExpr: constant + coef1 * var1 + ...; coef is the HashMap<VarToken,Coef>.
\* ------------------------------------------------------------------------
LinExpr_from_coef(c) == [constant |-> c, coef |-> EmptyVec]
LinExpr_from_var(var) == [constant |-> Ratio_zero, coef |-> [x \in {var} |-> Ratio_one]]
\* impl Mul<T> for LinExpr
LinExpr_mul(e, rhs) ==
    IF Ratio_is_zero(rhs)
    THEN [constant |-> Ratio_zero, coef |-> EmptyVec]
    ELSE IF rhs # Ratio_one
         THEN [constant |-> Ratio_mul(e.constant, rhs),
               coef |-> [x \in DOMAIN e.coef |-> Ratio_mul(e.coef[x], rhs)]]
         ELSE e
\* impl Neg for LinExpr
LinExpr_neg(e) == LinExpr_mul(e, Ratio_from_integer(-1))
\* impl Add<T> for LinExpr (a constant on the right)
LinExpr_add_coef(e, c) == [e EXCEPT !.constant = Ratio_add(e.constant, c)]
\* A faulty sum that keeps an occupied entry whose sum is zero.
LinExpr_add_keeping(e, rhs) ==
    [constant |-> Ratio_add(e.constant, rhs.constant),
     coef |-> [x \in DOMAIN e.coef \cup DOMAIN rhs.coef |->
                 IF x \notin DOMAIN e.coef THEN rhs.coef[x]
                 ELSE IF x \notin DOMAIN rhs.coef THEN e.coef[x]
                 ELSE Ratio_add(e.coef[x], rhs.coef[x])]]
\* impl Add for LinExpr: vacant entries are inserted, occupied entries are
\* summed and removed when the sum is zero.
LinExpr_add(e, rhs) ==
    LET keep == {x \in DOMAIN e.coef \cup DOMAIN rhs.coef :
                    \/ x \notin DOMAIN e.coef
                    \/ x \notin DOMAIN rhs.coef
                    \/ ~Ratio_is_zero(Ratio_add(e.coef[x], rhs.coef[x]))}
    IN [constant |-> Ratio_add(e.constant, rhs.constant),
        coef |-> [x \in keep |->
                    IF x \notin DOMAIN e.coef THEN rhs.coef[x]
                    ELSE IF x \notin DOMAIN rhs.coef THEN e.coef[x]
                    ELSE Ratio_add(e.coef[x], rhs.coef[x])]]
\* impl_subtract_op: self + (-rhs)
LinExpr_sub(e, rhs) == LinExpr_add(e, LinExpr_neg(rhs))

\* ------------------------------------------------------------------------
\* Option<T> and PsResult<T>.
\* ------------------------------------------------------------------------
None == [some |-> FALSE]
Some(x) == [some |-> TRUE, val |-> x]
\* A result of a search-state operation on the state w: st is "ok", "err" (a
\* contradiction, Err(())) or "panic".
Ok(w) == [st |-> "ok", w |-> w]
Err(w) == [st |-> "err", w |-> w]
Panic(w) == [st |-> "panic", w |-> w]
bool_to_result(cond, w) == IF cond THEN Ok(w) ELSE Err(w)

\* ------------------------------------------------------------------------
\* Rc<BTreeSet<Val>>: heap maps an address to the set and its strong count.
\* The copy a state at depth d makes of the set of variable idx lives at
\* address <<d, idx>>; the Puzzle is depth 0.
\* ------------------------------------------------------------------------
Rc_new(heap, addr, set) ==
    [a \in DOMAIN heap \cup {addr} |->
        IF a = addr THEN [set |-> set, rc |-> 1] ELSE heap[a]]
Rc_clone(heap, addr) == [heap EXCEPT ![addr].rc = @ + 1]
Rc_drop(heap, addr) ==
    IF heap[addr].rc = 1
    THEN [a \in DOMAIN heap \ {addr} |-> heap[a]]
    ELSE [heap EXCEPT ![addr].rc = @ - 1]
\* A faulty make_mut that hands out the shared set itself.
Rc_make_mut_shared(heap, addr, fresh) == [heap |-> heap, rc |-> addr]
\* Rc::make_mut: the set itself when this is the only reference, otherwise a
\* private copy at the address fresh (the shared set loses one reference).
Rc_make_mut(heap, addr, fresh) ==
    IF heap[addr].rc = 1
    THEN [heap |-> heap, rc |-> addr]
    ELSE [heap |-> Rc_new(Rc_drop(heap, addr), fresh, heap[addr].set), rc |-> fresh]

\* ------------------------------------------------------------------------
\* enum Candidates { None, Value(Val), Set(Rc<BTreeSet<Val>>) }
\* ------------------------------------------------------------------------
Candidates_None == [kind |-> "None"]
Candidates_Value(val) == [kind |-> "Value", val |-> val]
Candidates_Set(rc) == [kind |-> "Set", rc |-> rc]
\* Candidates::len
Candidates_len(heap, cs) ==
    CASE cs.kind = "None" -> 0
      [] cs.kind = "Value" -> 1
      [] cs.kind = "Set" -> Cardinality(heap[cs.rc].set)
\* Candidates::iter, as the set it iterates over in ascending order.
Candidates_iter(heap, cs) ==
    CASE cs.kind = "None" -> {}
      [] cs.kind = "Value" -> {cs.val}
      [] cs.kind = "Set" -> heap[cs.rc].set
\* #[derive(Clone)] for Candidates: a Set shares its Rc.
Candidates_clone(heap, cs) == IF cs.kind = "Set" THEN Rc_clone(heap, cs.rc) ELSE heap
Candidates_drop(heap, cs) == IF cs.kind = "Set" THEN Rc_drop(heap, cs.rc) ELSE heap

\* ------------------------------------------------------------------------
\* enum VarState { Assigned(Val), Unassigned(Candidates), Unified(VarToken) }
\* ------------------------------------------------------------------------
Assigned(val) == [tag |-> "Assigned", val |-> val]
Unassigned(cs) == [tag |-> "Unassigned", cs |-> cs]
Unified(var) == [tag |-> "Unified", var |-> var]
IsSetCell(vs) == vs.tag = "Unassigned" /\ vs.cs.kind = "Set"

\* Cloning and dropping a Vec of Candidates or of VarState, one cell after
\* the other.
RECURSIVE Vec_clone(_, _, _)
Vec_clone(heap, cells, i) ==
    IF i >= VLen(cells) THEN heap
    ELSE Vec_clone(IF cells[i].tag = "Unassigned"
                   THEN Candidates_clone(heap, cells[i].cs) ELSE heap, cells, i + 1)
RECURSIVE Vec_drop(_, _, _)
Vec_drop(heap, cells, i) ==
    IF i >= VLen(cells) THEN heap
    ELSE Vec_drop(IF cells[i].tag = "Unassigned"
                  THEN Candidates_drop(heap, cells[i].cs) ELSE heap, cells, i + 1)

\* ------------------------------------------------------------------------
\* PuzzleSearch accessors.  A search state w has the fields vars, wake, cons
\* (the PuzzleConstraints: constraints and the per-variable wake index), the
\* heap it works on and its depth in the search tree.
\* ------------------------------------------------------------------------
RECURSIVE is_assigned(_, _)
is_assigned(w, var) ==
    LET vs == w.vars[var] IN
    CASE vs.tag = "Assigned" -> TRUE
      [] vs.tag = "Unassigned" -> FALSE
      [] vs.tag = "Unified" -> is_assigned(w, vs.var)
RECURSIVE get_assigned(_, _)
get_assigned(w, var) ==
    LET vs == w.vars[var] IN
    CASE vs.tag = "Assigned" -> Some(vs.val)
      [] vs.tag = "Unassigned" -> None
      [] vs.tag = "Unified" -> get_assigned(w, vs.var)
RECURSIVE get_unassigned(_, _)
get_unassigned(w, var) ==
    LET vs == w.vars[var] IN
    CASE vs.tag = "Assigned" -> {}
      [] vs.tag = "Unassigned" -> Candidates_iter(w.heap, vs.cs)
      [] vs.tag = "Unified" -> get_unassigned(w, vs.var)
\* get_min_max: [st, min, max]
RECURSIVE get_min_max(_, _)
get_min_max(w, var) ==
    LET vs == w.vars[var]
        set == Candidates_iter(w.heap, vs.cs)
    IN
    CASE vs.tag = "Assigned" -> [st |-> "ok", min |-> vs.val, max |-> vs.val]
      [] vs.tag = "Unassigned" ->
            IF set = {} THEN [st |-> "err", min |-> 0, max |-> 0]
            ELSE [st |-> "ok", min |-> Min(set), max |-> Max(set)]
      [] vs.tag = "Unified" -> get_min_max(w, vs.var)
\* impl ops::Index<VarToken> for PuzzleSearch: the value, or a panic.
RECURSIVE Index(_, _)
Index(w, var) ==
    LET vs == w.vars[var] IN
    CASE vs.tag = "Assigned" -> Some(vs.val)
      [] vs.tag = "Unassigned" -> None
      [] vs.tag = "Unified" -> Index(w, vs.var)

\* ------------------------------------------------------------------------
\* PuzzleSearch mutators.
\* ------------------------------------------------------------------------
\* The write of a new set through Rc::make_mut into the cell of variable idx,
\* followed by self.wake.union_with(&self.constraints.wake[idx]).
\* A faulty write that wakes no constraint.
WriteSet_silent(w, idx, set) ==
    LET m == Rc_make_mut(w.heap, w.vars[idx].cs.rc, <<w.depth, idx>>)
    IN [w EXCEPT !.heap = [m.heap EXCEPT ![m.rc].set = set],
                 !.vars[idx] = Unassigned(Candidates_Set(m.rc))]
WriteSet(w, idx, set) ==
    LET m == Rc_make_mut(w.heap, w.vars[idx].cs.rc, <<w.depth, idx>>)
    IN [w EXCEPT !.heap = [m.heap EXCEPT ![m.rc].set = set],
                 !.vars[idx] = Unassigned(Candidates_Set(m.rc)),
                 !.wake = @ \cup w.cons.wake[idx]]

RECURSIVE set_candidate(_, _, _)
set_candidate(w, var, val) ==
    LET vs == w.vars[var] IN
    CASE vs.tag = "Assigned" -> bool_to_result(vs.val = val, w)
      [] vs.tag = "Unassigned" /\ vs.cs.kind = "None" -> Err(w)
      [] vs.tag = "Unassigned" /\ vs.cs.kind = "Value" -> bool_to_result(vs.cs.val = val, w)
      [] vs.tag = "Unified" -> set_candidate(w, vs.var, val)
      [] OTHER ->
            IF val \in w.heap[vs.cs.rc].set
            THEN Ok(WriteSet(w, var, {val}))
            ELSE Err(w)

RECURSIVE remove_candidate(_, _, _)
remove_candidate(w, var, val) ==
    LET vs == w.vars[var] IN
    CASE vs.tag = "Assigned" -> bool_to_result(vs.val # val, w)
      [] vs.tag = "Unassigned" /\ vs.cs.kind = "None" -> Err(w)
      [] vs.tag = "Unassigned" /\ vs.cs.kind = "Value" -> bool_to_result(vs.cs.val # val, w)
      [] vs.tag = "Unified" -> remove_candidate(w, vs.var, val)
      [] OTHER ->
            LET set == w.heap[vs.cs.rc].set
                w2 == IF val \in set THEN WriteSet(w, var, set \ {val}) ELSE w
            IN bool_to_result(set \ {val} # {}, w2)

\* bound_candidate_range: [st, w, min, max]
RECURSIVE bound_candidate_range(_, _, _, _)
bound_candidate_range(w, var, min, max) ==
    LET vs == w.vars[var]
        res(st, w2, lo, hi) == [st |-> st, w |-> w2, min |-> lo, max |-> hi]
    IN
    CASE vs.tag = "Assigned" ->
            IF min <= vs.val /\ vs.val <= max
            THEN res("ok", w, vs.val, vs.val) ELSE res("err", w, 0, 0)
      [] vs.tag = "Unassigned" /\ vs.cs.kind = "None" -> res("err", w, 0, 0)
      [] vs.tag = "Unassigned" /\ vs.cs.kind = "Value" ->
            IF min <= vs.cs.val /\ vs.cs.val <= max
            THEN res("ok", w, vs.cs.val, vs.cs.val) ELSE res("err", w, 0, 0)
      [] vs.tag = "Unified" -> bound_candidate_range(w, vs.var, min, max)
      [] OTHER ->
            LET set == w.heap[vs.cs.rc].set
                new == {v \in set : min <= v /\ v <= max}
            IN IF set = {} THEN res("panic", w, 0, 0)
               ELSE IF Min(set) < min \/ max < Max(set)
               THEN LET w2 == WriteSet(w, var, new)
                    IN IF new = {} THEN res("err", w2, 0, 0)
                       ELSE res("ok", w2, Min(new), Max(new))
               ELSE res("ok", w, Min(set), Max(set))

\* ------------------------------------------------------------------------
\* Constraints.  AllDifferent{vars: Vec<VarToken>} (a sequence), Equality{eqn}
\* and Unify{var1, var2}.
\* ------------------------------------------------------------------------
AllDifferent_new(vars) == [type |-> "AllDifferent", vars |-> vars]
Equality_new(eqn) == [type |-> "Equality", eqn |-> eqn]
Unify_new(var1, var2) == [type |-> "Unify", var1 |-> var1, var2 |-> var2]
SeqRange(s) == {s[i] : i \in DOMAIN s}

\* Constraint::vars
Constraint_vars(c) ==
    CASE c.type = "AllDifferent" -> SeqRange(c.vars)
      [] c.type = "Equality" -> DOMAIN c.eqn.coef
      [] c.type = "Unify" -> IF c.var1 # c.var2 THEN {c.var1, c.var2} ELSE {}

\* AllDifferent::on_assigned: remove val from every other variable, in Vec
\* order, stopping at the first contradiction.
RECURSIVE AllDifferent_remove(_, _, _, _, _)
AllDifferent_remove(c, w, var, val, i) ==
    IF i > Len(c.vars) THEN Ok(w)
    ELSE IF c.vars[i] = var THEN AllDifferent_remove(c, w, var, val, i + 1)
    ELSE LET r == remove_candidate(w, c.vars[i], val)
         IN IF r.st # "ok" THEN r ELSE AllDifferent_remove(c, r.w, var, val, i + 1)
\* A faulty on_assigned that leaves the other variables as they are, as the
\* default method of the trait does.
AllDifferent_on_assigned_default(c, w, var, val) == Ok(w)
AllDifferent_on_assigned(c, w, var, val) == AllDifferent_remove(c, w, var, val, 1)

\* The table all_candidates of AllDifferent::on_updated: a value maps to
\* Some(var) when exactly one occurrence of an unassigned variable bears it,
\* and to None when several do.
AllDifferent_unassigned(c, w) == {i \in DOMAIN c.vars : ~is_assigned(w, c.vars[i])}
AllDifferent_bearers(c, w, val) ==
    {i \in AllDifferent_unassigned(c, w) : val \in get_unassigned(w, c.vars[i])}
\* A faulty table in which a value borne by several variables keeps the first
\* of them instead of None.
AllDifferent_all_candidates_first(c, w) ==
    LET keys == UNION {get_unassigned(w, c.vars[i]) : i \in AllDifferent_unassigned(c, w)}
    IN [val \in keys |-> Some(c.vars[Min(AllDifferent_bearers(c, w, val))])]
AllDifferent_all_candidates(c, w) ==
    LET keys == UNION {get_unassigned(w, c.vars[i]) : i \in AllDifferent_unassigned(c, w)}
    IN [val \in keys |->
            LET b == AllDifferent_bearers(c, w, val)
            IN IF Cardinality(b) = 1 THEN Some(c.vars[CHOOSE i \in b : TRUE]) ELSE None]
\* The loop over all_candidates.iter(), in the order the HashMap gives.
RECURSIVE AllDifferent_set(_, _, _, _)
AllDifferent_set(all, w, order, i) ==
    IF i > Len(order) THEN Ok(w)
    ELSE IF all[order[i]].some
    THEN LET r == set_candidate(w, all[order[i]].val, order[i])
         IN IF r.st # "ok" THEN r ELSE AllDifferent_set(all, r.w, order, i + 1)
    ELSE AllDifferent_set(all, w, order, i + 1)
\* A faulty pigeonhole test.
AllDifferent_too_many_never(num_unassigned, len) == FALSE
\* num_unassigned > all_candidates.len()
AllDifferent_too_many(num_unassigned, len) == num_unassigned > len
\* A faulty on_updated that stops after the pigeonhole test.
AllDifferent_on_updated_test_only(c, w, order) ==
    IF AllDifferent_too_many(Cardinality(AllDifferent_unassigned(c, w)),
                             Cardinality(DOMAIN AllDifferent_all_candidates(c, w)))
    THEN Err(w) ELSE Ok(w)
AllDifferent_on_updated(c, w, order) ==
    LET num_unassigned == Cardinality(AllDifferent_unassigned(c, w))
        all == AllDifferent_all_candidates(c, w)
    IN IF AllDifferent_too_many(num_unassigned, Cardinality(DOMAIN all)) THEN Err(w)
       ELSE IF num_unassigned = Cardinality(DOMAIN all)
       THEN AllDifferent_set(all, w, order, 1)
       ELSE Ok(w)

\* AllDifferent::substitute: [st, c]
AllDifferent_substitute(c, from, to) ==
    IF from \in SeqRange(c.vars) /\ to \notin SeqRange(c.vars)
    THEN LET idx == Min({i \in DOMAIN c.vars : c.vars[i] = from})
         IN [st |-> "ok", c |-> AllDifferent_new([c.vars EXCEPT ![idx] = to])]
    ELSE [st |-> "err", c |-> c]

\* The sum of coef * value over a set of variables.
RECURSIVE Equality_sum(_, _, _)
Equality_sum(eqn, vals, S) ==
    IF S = {} THEN Ratio_zero
    ELSE LET x == Min(S)
         IN Ratio_add(Ratio_mul(eqn.coef[x], Ratio_from_integer(vals[x])),
                      Equality_sum(eqn, vals, S \ {x}))

\* A faulty on_assigned that converts the quotient to an integer without
\* testing is_integer.
Equality_on_assigned_truncating(c, w) ==
    LET keys == DOMAIN c.eqn.coef
        unassigned == {x \in keys : ~get_assigned(w, x).some}
        vals == [x \in keys \ unassigned |-> get_assigned(w, x).val]
        sum == Ratio_add(c.eqn.constant, Equality_sum(c.eqn, vals, keys \ unassigned))
    IN IF Cardinality(unassigned) > 1 THEN Ok(w)
       ELSE IF Cardinality(unassigned) = 1
       THEN LET var == CHOOSE x \in unassigned : TRUE
                val == Ratio_div(Ratio_neg(sum), c.eqn.coef[var])
            IN set_candidate(w, var, Ratio_to_integer(val))
       ELSE IF ~Ratio_is_zero(sum) THEN Err(w) ELSE Ok(w)
\* Equality::on_assigned
Equality_on_assigned(c, w) ==
    LET keys == DOMAIN c.eqn.coef
        unassigned == {x \in keys : ~get_assigned(w, x).some}
        vals == [x \in keys \ unassigned |-> get_assigned(w, x).val]
        sum == Ratio_add(c.eqn.constant, Equality_sum(c.eqn, vals, keys \ unassigned))
    IN IF Cardinality(unassigned) > 1 THEN Ok(w)
       ELSE IF Cardinality(unassigned) = 1
       THEN LET var == CHOOSE x \in unassigned : TRUE
                val == Ratio_div(Ratio_neg(sum), c.eqn.coef[var])
            IN IF Ratio_is_integer(val)
               THEN set_candidate(w, var, Ratio_to_integer(val))
               ELSE Err(w)
       ELSE IF ~Ratio_is_zero(sum) THEN Err(w) ELSE Ok(w)

\* The first loop of Equality::on_updated: [st, sum_min, sum_max]
RECURSIVE Equality_sums(_, _, _, _, _, _)
Equality_sums(eqn, w, order, i, sum_min, sum_max) ==
    IF i > Len(order) THEN [st |-> "ok", sum_min |-> sum_min, sum_max |-> sum_max]
    ELSE LET coef == eqn.coef[order[i]]
             mm == get_min_max(w, order[i])
             lo == Ratio_mul(coef, Ratio_from_integer(mm.min))
             hi == Ratio_mul(coef, Ratio_from_integer(mm.max))
         IN IF mm.st # "ok" THEN [st |-> "err", sum_min |-> sum_min, sum_max |-> sum_max]
            ELSE IF Ratio_gt(coef, Ratio_zero)
            THEN Equality_sums(eqn, w, order, i + 1,
                               Ratio_add(sum_min, lo), Ratio_add(sum_max, hi))
            ELSE Equality_sums(eqn, w, order, i + 1,
                               Ratio_add(sum_min, hi), Ratio_add(sum_max, lo))

\* A faulty restart of the round-robin counter: it is never restarted.
Equality_restart_never(iters, len) == iters
\* iters = self.eqn.coef.len(), after a bound was tightened.
Equality_restart(iters, len) == len
\* The range test at the top of the round-robin loop.
Equality_feasible(sum_min, sum_max) ==
    Ratio_le(sum_min, Ratio_zero) /\ Ratio_le(Ratio_zero, sum_max)

\* The second loop of Equality::on_updated; pos is the position of the
\* cycling iterator.
RECURSIVE Equality_bounds(_, _, _, _, _, _, _)
Equality_bounds(eqn, w, order, iters, pos, sum_min, sum_max) ==
    IF iters = 0 THEN Ok(w)
    ELSE IF ~Equality_feasible(sum_min, sum_max) THEN Err(w)
    ELSE
    LET var == order[pos]
        coef == eqn.coef[var]
        next == (pos % Len(order)) + 1
        mm == get_min_max(w, var)
        cmin == Ratio_mul(coef, Ratio_from_integer(mm.min))
        cmax == Ratio_mul(coef, Ratio_from_integer(mm.max))
        pos_coef == Ratio_gt(coef, Ratio_zero)
        min_bnd == Ratio_to_integer(Ratio_ceil(Ratio_div(
                      Ratio_sub(cmax, IF pos_coef THEN sum_max ELSE sum_min), coef)))
        max_bnd == Ratio_to_integer(Ratio_floor(Ratio_div(
                      Ratio_sub(cmin, IF pos_coef THEN sum_min ELSE sum_max), coef)))
        b == bound_candidate_range(w, var, min_bnd, max_bnd)
        dmin == Ratio_mul(coef, Ratio_from_integer(b.min - mm.min))
        dmax == Ratio_mul(coef, Ratio_from_integer(b.max - mm.max))
    IN IF is_assigned(w, var)
       THEN Equality_bounds(eqn, w, order, iters - 1, next, sum_min, sum_max)
       ELSE IF mm.st # "ok" THEN Err(w)
       ELSE IF mm.min < min_bnd \/ max_bnd < mm.max
       THEN IF b.st # "ok" THEN [st |-> b.st, w |-> b.w]
            ELSE Equality_bounds(eqn, b.w, order,
                    Equality_restart(iters - 1, Len(order)), next,
                    Ratio_add(sum_min, IF pos_coef THEN dmin ELSE dmax),
                    Ratio_add(sum_max, IF pos_coef THEN dmax ELSE dmin))
       ELSE Equality_bounds(eqn, w, order, iters - 1, next, sum_min, sum_max)

\* Equality::on_updated, the HashMap self.eqn.coef iterated in the given order.
Equality_on_updated(c, w, order) ==
    LET s == Equality_sums(c.eqn, w, order, 1, c.eqn.constant, c.eqn.constant)
    IN IF s.st # "ok" THEN Err(w)
       ELSE Equality_bounds(c.eqn, w, order, Len(order), 1, s.sum_min, s.sum_max)

\* A faulty substitute that keeps the entry of to when the sum is zero.
Equality_substitute_keeping(c, from, to) ==
    LET removed == [c.eqn EXCEPT !.coef = [x \in DOMAIN c.eqn.coef \ {from} |-> c.eqn.coef[x]]]
    IN [st |-> "ok",
        c |-> Equality_new(
                IF from \in DOMAIN c.eqn.coef
                THEN LinExpr_add_keeping(removed, LinExpr_mul(LinExpr_from_var(to), c.eqn.coef[from]))
                ELSE c.eqn)]

\* Equality::substitute: [st, c]
Equality_substitute(c, from, to) ==
    LET removed == [c.eqn EXCEPT !.coef = [x \in DOMAIN c.eqn.coef \ {from} |-> c.eqn.coef[x]]]
    IN [st |-> "ok",
        c |-> Equality_new(
                IF from \in DOMAIN c.eqn.coef
                THEN LinExpr_add(removed, LinExpr_mul(LinExpr_from_var(to), c.eqn.coef[from]))
                ELSE c.eqn)]

\* Unify::substitute: [st, c]
Unify_substitute(c, from, to) ==
    [st |-> "ok",
     c |-> Unify_new(IF c.var1 = from THEN to ELSE c.var1,
                     IF c.var2 = from THEN to ELSE c.var2)]

\* Constraint::substitute
substitute(c, from, to) ==
    CASE c.type = "AllDifferent" -> AllDifferent_substitute(c, from, to)
      [] c.type = "Equality" -> Equality_substitute(c, from, to)
      [] c.type = "Unify" -> Unify_substitute(c, from, to)

\* ------------------------------------------------------------------------
\* PuzzleConstraints { constraints, wake }
\* ------------------------------------------------------------------------
\* PuzzleConstraints::init_wake
init_wake(constraints, num_vars) ==
    [idx \in 0..(num_vars - 1) |->
        {cidx \in DOMAIN constraints : idx \in Constraint_vars(constraints[cidx])}]
\* PuzzleConstraints::new
PuzzleConstraints_new(constraints, num_vars) ==
    [constraints |-> constraints, wake |-> init_wake(constraints, num_vars)]
\* PuzzleConstraints::substitute: [st, cons]
PuzzleConstraints_substitute(cons, from, to) ==
    LET subs == [cidx \in cons.wake[from] |-> substitute(cons.constraints[cidx], from, to)]
        new_constraints == [cidx \in DOMAIN cons.constraints |->
                              IF cidx \in cons.wake[from] THEN subs[cidx].c
                              ELSE cons.constraints[cidx]]
    IN IF \E cidx \in cons.wake[from] : subs[cidx].st # "ok"
       THEN [st |-> "err", cons |-> cons]
       ELSE [st |-> "ok",
             cons |-> [constraints |-> new_constraints,
                       wake |-> init_wake(new_constraints, VLen(cons.wake))]]

\* ------------------------------------------------------------------------
\* PuzzleSearch::unify
\* ------------------------------------------------------------------------
\* The choice of (from, to) after the preliminary checks.
unify_order(w, from, to) ==
    IF w.vars[from].tag = "Unassigned" /\ w.vars[to].tag = "Assigned"
    THEN [from |-> to, to |-> from]
    ELSE [from |-> from, to |-> to]
\* "Take intersection of the candidates": the Rc of to is replaced by a new
\* one holding the intersection.
unify_intersect(w, search, replace) ==
    LET rc1 == w.vars[search].cs.rc
        rc2 == w.vars[replace].cs.rc
        set == w.heap[rc2].set \cap w.heap[rc1].set
        fresh == <<w.depth, replace>>
        w2 == [w EXCEPT !.heap = Rc_new(Rc_drop(w.heap, rc2), fresh, set),
                        !.vars[replace] = Unassigned(Candidates_Set(fresh))]
    IN bool_to_result(set # {}, w2)
\* A faulty unification that leaves the cell of from as it is.
unify_redirect_kept(w, search, to) == w
\* A faulty unification that redirects from to itself.
unify_redirect_self(w, search, to) == [w EXCEPT !.vars[search] = Unified(search)]
\* self.vars[search] = VarState::Unified(to), dropping the old cell.
unify_redirect(w, search, to) ==
    [w EXCEPT !.heap = IF w.vars[search].tag = "Unassigned"
                       THEN Candidates_drop(w.heap, w.vars[search].cs) ELSE w.heap,
              !.vars[search] = Unified(to)]
\* A faulty unification that leaves the candidates of to as they are.
unify_assigned_skipped(w, search, replace) == Ok(w)
\* try!(self.set_candidate(to, val)), val being the value from is Assigned to.
unify_assigned(w, search, replace) == set_candidate(w, replace, w.vars[search].val)
\* A faulty comparison that lets two Assigned variables pass whatever their
\* values.
unify_both_assigned_pass(w, from, to) == Ok(w)
\* (Assigned(val1), Assigned(val2)) => return bool_to_result(val1 == val2)
unify_both_assigned(w, from, to) == bool_to_result(w.vars[from].val = w.vars[to].val, w)
unify(w, from0, to0) ==
    IF from0 = to0 THEN Ok(w)
    ELSE IF w.vars[from0].tag = "Assigned" /\ w.vars[to0].tag = "Assigned"
    THEN unify_both_assigned(w, from0, to0)
    ELSE IF w.vars[from0].tag = "Unified" \/ w.vars[to0].tag = "Unified"
    THEN Panic(w)
    ELSE
    LET ft == unify_order(w, from0, to0)
        search == ft.from
        replace == ft.to
        sub == PuzzleConstraints_substitute(w.cons, search, replace)
        w1 == [w EXCEPT !.cons = sub.cons,
                        !.wake = @ \cup sub.cons.wake[replace]]
        r == IF w1.vars[search].tag = "Assigned"
             THEN unify_assigned(w1, search, replace)
             ELSE IF IsSetCell(w1.vars[search]) /\ IsSetCell(w1.vars[replace])
             THEN unify_intersect(w1, search, replace)
             ELSE Ok(w1)
    IN IF sub.st # "ok" THEN Err(w)
       ELSE IF sub.cons.wake[search] # {} THEN Panic(w1)
       ELSE IF r.st # "ok" THEN r
       ELSE Ok(unify_redirect(r.w, search, replace))

\* Unify::on_updated
Unify_on_updated(c, w) == IF c.var1 # c.var2 THEN unify(w, c.var1, c.var2) ELSE Ok(w)

\* ------------------------------------------------------------------------
\* Constraint::on_assigned and Constraint::on_updated
\* ------------------------------------------------------------------------
on_assigned(c, w, var, val) ==
    CASE c.type = "AllDifferent" -> AllDifferent_on_assigned(c, w, var, val)
      [] c.type = "Equality" -> Equality_on_assigned(c, w)
      [] c.type = "Unify" -> Ok(w)
\* The orders in which the HashMap that on_updated walks may be iterated.
HashOrders(c, w) ==
    CASE c.type = "AllDifferent" -> Orders(DOMAIN AllDifferent_all_candidates(c, w))
      [] c.type = "Equality" -> Orders(DOMAIN c.eqn.coef)
      [] c.type = "Unify" -> {<<>>}
on_updated(c, w, order) ==
    CASE c.type = "AllDifferent" -> AllDifferent_on_updated(c, w, order)
      [] c.type = "Equality" -> Equality_on_updated(c, w, order)
      [] c.type = "Unify" -> Unify_on_updated(c, w)

\* ------------------------------------------------------------------------
\* PuzzleSearch::assign
\* ------------------------------------------------------------------------
RECURSIVE assign_notify(_, _, _, _)
assign_notify(w, idx, val, cidx) ==
    IF cidx >= VLen(w.cons.constraints) THEN Ok(w)
    ELSE IF cidx \in w.cons.wake[idx]
    THEN LET r == on_assigned(w.cons.constraints[cidx], w, idx, val)
         IN IF r.st # "ok" THEN r ELSE assign_notify(r.w, idx, val, cidx + 1)
    ELSE assign_notify(w, idx, val, cidx + 1)
assign(w, idx, val) ==
    LET w1 == [w EXCEPT !.heap = IF w.vars[idx].tag = "Unassigned"
                                 THEN Candidates_drop(w.heap, w.vars[idx].cs) ELSE w.heap,
                        !.vars[idx] = Assigned(val),
                        !.wake = @ \cup w.cons.wake[idx]]
    IN assign_notify(w1, idx, val, 0)

\* ------------------------------------------------------------------------
\* PuzzleSearch::constrain: the "gimme" phase.
\* ------------------------------------------------------------------------
RECURSIVE gimme_loop(_, _, _)
gimme_loop(w, idx, last_gimme) ==
    LET vs == w.vars[idx]
        cycle == VLen(w.vars)
        len == Candidates_len(w.heap, vs.cs)
        next == IF idx + 1 >= cycle THEN 0 ELSE idx + 1
        r == assign(w, idx, Min(Candidates_iter(w.heap, vs.cs)))
    IN IF vs.tag = "Unassigned" /\ len = 0 THEN Err(w)
       ELSE IF vs.tag = "Unassigned" /\ len = 1
       THEN IF r.st # "ok" THEN r ELSE gimme_loop(r.w, next, idx)
       ELSE IF idx = last_gimme THEN Ok(w)
       ELSE gimme_loop(w, next, last_gimme)
\* A faulty round that goes to the constraints without the sweep.
gimme_skipped(w) == Ok(w)
gimme(w) == gimme_loop(w, 0, VLen(w.vars) - 1)

\* ------------------------------------------------------------------------
\* The program state.
\* ------------------------------------------------------------------------
VARIABLES
    puzzle,     \* the Puzzle: num_vars, num_guesses, candidates, constraints
    heap,       \* the Rc<BTreeSet<Val>> cells: address -> [set, rc]
    edits,      \* the edits made so far to the variable declared last
    call,       \* the Puzzle method being executed, or "none"
    count,      \* the argument count of PuzzleSearch::solve
    stack,      \* the PuzzleSearch states of the active solve/constrain calls
    solutions,  \* the Vec<Solution> being collected
    result,     \* what the last call returned
    panicked,   \* a panic!, a failed assert! or a failed expect
    tries,      \* the candidate values tried at branch points in this call
    track,      \* whether prior is kept
    prior,      \* what the call before the last one returned, when the last
                \* call repeats it or is solve_unique after solve_all
    decisions,  \* cur: the <<variable, value>> assigned at each branch point
                \* on the way to the top of stack; done: that of each solution
                \* pushed in this call
    expr        \* a LinExpr being built by the caller
vars == <<puzzle, heap, edits, call, count, stack, solutions, result, panicked, tries,
          track, prior, decisions, expr>>

\* usize::MAX, the count of solve_all and the key of a variable that is not
\* Unassigned; it stands here for a number no length reaches.
usize_MAX == 2147483647

\* Puzzle::new
Puzzle_new == [num_vars |-> 0, num_guesses |-> 0,
               candidates |-> EmptyVec, constraints |-> EmptyVec]
NoResult == [call |-> "none"]
NoDecisions == [cur |-> <<>>, done |-> <<>>]

Init ==
    /\ puzzle = Puzzle_new
    /\ heap = EmptyVec
    /\ edits = 0
    /\ call = "none"
    /\ count = 0
    /\ stack = <<>>
    /\ solutions = <<>>
    /\ result = NoResult
    /\ panicked = FALSE
    /\ tries = 0
    /\ track = FALSE
    /\ prior = NoResult
    /\ decisions = NoDecisions
    /\ expr = LinExpr_from_coef(Ratio_zero)

Idle == call = "none" /\ ~panicked
\* No method that borrows the Puzzle mutably has been called in a way that
\* leaves a PuzzleSearch alive, and none is running.
Building == Idle /\ result = NoResult
UNCHANGED_search ==
    UNCHANGED <<call, count, stack, solutions, result, tries, track, prior, decisions, expr>>

\* ------------------------------------------------------------------------
\* The declarative API of Puzzle.
\* ------------------------------------------------------------------------
\* Puzzle::new_var
new_var(p) == [p EXCEPT !.num_vars = @ + 1,
                        !.candidates = VPush(@, Candidates_None)]
\* A faulty set_value that overwrites a fixed value without complaint.
set_value_overwrite(p, h, idx, value) ==
    [panic |-> FALSE,
     p |-> [p EXCEPT !.candidates[idx] = Candidates_Value(value)],
     heap |-> Candidates_drop(h, p.candidates[idx])]
\* Puzzle::set_value: [panic, p, heap]
set_value(p, h, idx, value) ==
    LET cs == p.candidates[idx] IN
    IF cs.kind = "Value" /\ cs.val # value
    THEN [panic |-> TRUE, p |-> p, heap |-> h]
    ELSE [panic |-> FALSE,
          p |-> [p EXCEPT !.candidates[idx] = Candidates_Value(value)],
          heap |-> Candidates_drop(h, cs)]
\* Puzzle::insert_candidates: [panic, p, heap]
insert_candidates(p, h, idx, candidates) ==
    LET cs == p.candidates[idx]
        addr == IF cs.kind = "None" THEN <<0, idx>> ELSE cs.rc
        h1 == IF cs.kind = "None" THEN Rc_new(h, addr, {}) ELSE h
    IN IF cs.kind = "Value" \/ h1[addr].rc # 1
       THEN [panic |-> TRUE, p |-> p, heap |-> h]
       ELSE [panic |-> FALSE,
             p |-> [p EXCEPT !.candidates[idx] = Candidates_Set(addr)],
             heap |-> [h1 EXCEPT ![addr].set = @ \cup candidates]]
\* Puzzle::remove_candidates: [panic, p, heap]
remove_candidates(p, h, idx, candidates) ==
    LET cs == p.candidates[idx] IN
    IF cs.kind = "Value" THEN [panic |-> TRUE, p |-> p, heap |-> h]
    ELSE IF cs.kind = "None" THEN [panic |-> FALSE, p |-> p, heap |-> h]
    ELSE IF h[cs.rc].rc # 1 THEN [panic |-> TRUE, p |-> p, heap |-> h]
    ELSE [panic |-> FALSE, p |-> p, heap |-> [h EXCEPT ![cs.rc].set = @ \ candidates]]
\* Puzzle::intersect_candidates: [panic, p, heap]
intersect_candidates(p, h, idx, candidates) ==
    LET cs == p.candidates[idx] IN
    IF cs.kind = "Value" THEN [panic |-> TRUE, p |-> p, heap |-> h]
    ELSE IF cs.kind = "None" THEN [panic |-> FALSE, p |-> p, heap |-> h]
    ELSE IF h[cs.rc].rc # 1 THEN [panic |-> TRUE, p |-> p, heap |-> h]
    ELSE [panic |-> FALSE, p |-> p, heap |-> [h EXCEPT ![cs.rc].set = @ \cap candidates]]
\* Puzzle::add_constraint
add_constraint(p, c) == [p EXCEPT !.constraints = VPush(@, c)]

\* let var = puzzle.new_var();
NewVar ==
    /\ Building /\ edits = 0 /\ VLen(puzzle.constraints) = 0
    /\ puzzle.num_vars < MaxVars
    /\ puzzle' = new_var(puzzle)
    /\ UNCHANGED <<heap, edits, panicked>>
    /\ UNCHANGED_search

\* let var = puzzle.new_var_with_candidates(&[1, .., k]);
NewVarWithCandidates ==
    /\ Building /\ edits = 0 /\ VLen(puzzle.constraints) = 0
    /\ puzzle.num_vars < MaxVars
    /\ \E k \in 1..MaxVal :
         LET r == insert_candidates(new_var(puzzle), heap, puzzle.num_vars, 1..k)
         IN /\ puzzle' = r.p
            /\ heap' = r.heap
            /\ panicked' = r.panic
    /\ UNCHANGED edits
    /\ UNCHANGED_search

\* An edit of the initial candidates of the variable declared last:
\* let var = puzzle.new_var..(); puzzle.set_value(var, v); ...
Edit(r) ==
    /\ puzzle' = r.p
    /\ heap' = r.heap
    /\ panicked' = r.panic
    /\ edits' = edits + 1
    /\ UNCHANGED_search
EditGuard ==
    /\ Building /\ edits < MaxEdits /\ VLen(puzzle.constraints) = 0
    /\ puzzle.num_vars > 0
LastVar == puzzle.num_vars - 1
SetValue ==
    /\ EditGuard
    /\ \E v \in 1..MaxVal : Edit(set_value(puzzle, heap, LastVar, v))
InsertCandidates ==
    /\ EditGuard
    /\ \E v \in 1..MaxVal : Edit(insert_candidates(puzzle, heap, LastVar, {v}))
RemoveCandidates ==
    /\ EditGuard
    /\ \E v \in 1..MaxVal : Edit(remove_candidates(puzzle, heap, LastVar, {v}))
IntersectCandidates ==
    /\ EditGuard
    /\ \E v \in 1..MaxVal : Edit(intersect_candidates(puzzle, heap, LastVar, {v}))

\* ------------------------------------------------------------------------
\* Registering constraints.
\* ------------------------------------------------------------------------
Var(i) == LinExpr_from_var(i)
Const(n) == LinExpr_from_coef(Ratio_from_integer(n))
\* Puzzle::all_different
Puzzle_all_different(p, vs) == add_constraint(p, AllDifferent_new(vs))
\* Puzzle::equals
Puzzle_equals(p, lhs, rhs) == add_constraint(p, Equality_new(LinExpr_sub(lhs, rhs)))
\* Puzzle::unify
Puzzle_unify(p, var1, var2) == add_constraint(p, Unify_new(var1, var2))

\* The equations the model registers on a puzzle of n variables, as
\* <<lhs, rhs>>: v0 + v1 = MaxVal + 1, v0 = v1 + 1, v0 + 2 * v1 = 4 and
\* v0 + v1 = v2.
Equations(n) ==
    (IF n >= 2
     THEN {<<LinExpr_add(Var(0), Var(1)), Const(MaxVal + 1)>>,
           <<Var(0), LinExpr_add_coef(Var(1), Ratio_one)>>,
           <<LinExpr_add(Var(0), LinExpr_mul(Var(1), Ratio_from_integer(2))), Const(4)>>}
     ELSE {})
    \cup (IF n >= 3 THEN {<<LinExpr_add(Var(0), Var(1)), Var(2)>>} ELSE {})

ConstraintGuard == Building /\ VLen(puzzle.constraints) < MaxCons
AddConstraint(p) ==
    /\ puzzle' = p
    /\ edits' = 0
    /\ UNCHANGED <<heap, panicked>>
    /\ UNCHANGED_search
\* puzzle.all_different(&[v0, .., vk-1]);
AllDifferent ==
    /\ ConstraintGuard
    /\ \E k \in 1..puzzle.num_vars :
         AddConstraint(Puzzle_all_different(puzzle, [i \in 1..k |-> i - 1]))
\* puzzle.equals(lhs, rhs);
Equals ==
    /\ ConstraintGuard
    /\ \E e \in Equations(puzzle.num_vars) :
         AddConstraint(Puzzle_equals(puzzle, e[1], e[2]))
\* puzzle.unify(vi, vi+1);
Unify ==
    /\ ConstraintGuard
    /\ \E i \in 0..(puzzle.num_vars - 2) :
         AddConstraint(Puzzle_unify(puzzle, i, i + 1))

\* ------------------------------------------------------------------------
\* PuzzleSearch::new and the frames of the search.
\* ------------------------------------------------------------------------
\* A frame of stack is a PuzzleSearch (vars, wake, cons) together with the
\* position of the code working on it: pc is "constrain" (the top of the
\* while loop of constrain), "apply" (inside "Apply constraints", pending
\* being what is left of the local copy of wake), "loop" (the for loop of
\* solve over the candidates of variable bidx, tried being those already
\* taken from the iterator) or "after" (new.solve has just returned).
Frame(vs, wake, cons) ==
    [vars |-> vs, wake |-> wake, cons |-> cons,
     pc |-> "constrain", pending |-> {}, bidx |-> 0, tried |-> {}]
\* The search state of a frame at the given depth, on the heap h.
Search(f, h, depth) ==
    [vars |-> f.vars, wake |-> f.wake, cons |-> f.cons, heap |-> h, depth |-> depth]
\* The frame with the search state w put back.
WithSearch(f, w) == [f EXCEPT !.vars = w.vars, !.wake = w.wake, !.cons = w.cons]
Top == stack[Len(stack)]
TopSearch == Search(Top, heap, Len(stack))
\* A faulty constructor that leaves the wake-set empty.
PuzzleSearch_new_asleep(p, h) ==
    LET vs == [idx \in DOMAIN p.candidates |-> Unassigned(p.candidates[idx])]
    IN [frame |-> Frame(vs, {}, PuzzleConstraints_new(p.constraints, p.num_vars)),
        heap |-> Vec_clone(h, vs, 0)]
\* PuzzleSearch::new: [frame, heap]
PuzzleSearch_new(p, h) ==
    LET vs == [idx \in DOMAIN p.candidates |-> Unassigned(p.candidates[idx])]
    IN [frame |-> Frame(vs, DOMAIN p.constraints,
                        PuzzleConstraints_new(p.constraints, p.num_vars)),
        heap |-> Vec_clone(h, vs, 0)]
\* The PuzzleSearch a step call returned is dropped before the Puzzle can be
\* borrowed again.
DropResult(h) ==
    IF result.call = "step" /\ result.ret.some
    THEN Vec_drop(h, result.ret.val.vars, 0) ELSE h

\* A faulty return in which solve_unique pops a solution as solve_any does,
\* without the test of solutions.len().
ReturnValue_unchecked(name, sols) ==
    CASE name \in {"solve_any", "solve_unique"} ->
            IF Len(sols) = 0 THEN None ELSE Some(sols[Len(sols)])
      [] name = "solve_all" -> sols
      [] name = "step" -> None
\* What the running call returns once its search has ended with the given
\* solutions.
ReturnValue(name, sols) ==
    CASE name = "solve_any" -> IF Len(sols) = 0 THEN None ELSE Some(sols[Len(sols)])
      [] name = "solve_unique" -> IF Len(sols) = 1 THEN Some(sols[1]) ELSE None
      [] name = "solve_all" -> sols
      [] name = "step" -> None
CountOf(name) ==
    CASE name = "solve_any" -> 1
      [] name = "solve_unique" -> 2
      [] name = "solve_all" -> usize_MAX
\* Where num_guesses stands when a solve call starts.
reset_guesses_missing(n) == n
\* self.num_guesses.set(0)
reset_guesses(n) == 0

\* A cell, a search state and the Puzzle with the sets in place of their
\* addresses.
CellView(vs, h) ==
    IF vs.tag = "Unassigned"
    THEN [tag |-> "Unassigned", kind |-> vs.cs.kind, set |-> Candidates_iter(h, vs.cs)]
    ELSE vs
StateView(f, h) ==
    [vars |-> [i \in DOMAIN f.vars |-> CellView(f.vars[i], h)],
     wake |-> f.wake, cons |-> f.cons]
PuzzleView ==
    [num_vars |-> puzzle.num_vars,
     candidates |-> [i \in DOMAIN puzzle.candidates |->
                        CellView(Unassigned(puzzle.candidates[i]), heap)],
     constraints |-> puzzle.constraints]
\* What the last call returned, as a value that outlives the heap.
ResultView ==
    [call |-> result.call,
     ret |-> IF result.call = "step" /\ result.ret.some
             THEN Some(StateView(result.ret.val, heap)) ELSE result.ret,
     guesses |-> puzzle.num_guesses]
PriorFor(name) ==
    IF track /\ (result.call = name \/ (result.call = "solve_all" /\ name = "solve_unique"))
    THEN ResultView ELSE NoResult

\* A faulty test that starts a search whatever the number of variables.
has_vars_always(p) == TRUE
\* if self.num_vars > 0
has_vars(p) == p.num_vars > 0

\* puzzle.solve_any(), puzzle.solve_unique() or puzzle.solve_all() is called.
StartSolve ==
    /\ Idle
    /\ \E name \in {"solve_any", "solve_unique", "solve_all"} :
         LET new == PuzzleSearch_new(puzzle, DropResult(heap)) IN
         /\ puzzle' = [puzzle EXCEPT !.num_guesses = reset_guesses(@)]
         /\ prior' = PriorFor(name)
         /\ count' = CountOf(name)
         /\ tries' = 0
         /\ solutions' = <<>>
         /\ IF has_vars(puzzle)
            THEN /\ call' = name
                 /\ stack' = <<new.frame>>
                 /\ heap' = new.heap
                 /\ result' = NoResult
            ELSE /\ call' = "none"
                 /\ stack' = <<>>
                 /\ heap' = DropResult(heap)
                 /\ result' = [call |-> name, ret |-> ReturnValue(name, <<>>)]
    /\ edits' = 0
    /\ decisions' = NoDecisions
    /\ UNCHANGED <<panicked, track, expr>>

\* puzzle.step() is called.
StartStep ==
    /\ Idle
    /\ LET new == PuzzleSearch_new(puzzle, DropResult(heap)) IN
       IF has_vars(puzzle)
       THEN /\ call' = "step"
            /\ stack' = <<new.frame>>
            /\ heap' = new.heap
            /\ result' = NoResult
       ELSE /\ call' = "none"
            /\ stack' = <<>>
            /\ heap' = DropResult(heap)
            /\ result' = [call |-> "step", ret |-> None]
    /\ edits' = 0
    /\ prior' = PriorFor("step")
    /\ decisions' = NoDecisions
    /\ UNCHANGED <<puzzle, count, solutions, panicked, tries, track, expr>>

\* ------------------------------------------------------------------------
\* PuzzleSearch::constrain and PuzzleSearch::solve, step by step.
\* ------------------------------------------------------------------------
Running == call # "none" /\ ~panicked
\* The top frame goes on with the search state w.
Continue(f, h) ==
    /\ stack' = [stack EXCEPT ![Len(stack)] = f]
    /\ heap' = h
    /\ UNCHANGED <<call, count, result, panicked, decisions>>
\* The call on the top frame, whose search state is now w, returns: the state
\* is dropped; the caller is the for loop of the frame below, or the Puzzle
\* method that started the search.
Return(w, sols) ==
    /\ heap' = Vec_drop(w.heap, w.vars, 0)
    /\ IF Len(stack) = 1
       THEN /\ stack' = <<>>
            /\ call' = "none"
            /\ count' = 0
            /\ solutions' = <<>>
            /\ result' = [call |-> call, ret |-> ReturnValue(call, sols)]
       ELSE /\ stack' = [SubSeq(stack, 1, Len(stack) - 1)
                            EXCEPT ![Len(stack) - 1].pc = "after"]
            /\ solutions' = sols
            /\ UNCHANGED <<call, count, result>>
    /\ decisions' = [cur |-> SubSeq(decisions.cur, 1, Len(decisions.cur) - 1),
                     done |-> IF Len(sols) > Len(solutions)
                              THEN Append(decisions.done, decisions.cur)
                              ELSE decisions.done]
    /\ UNCHANGED panicked
DoPanic ==
    /\ panicked' = TRUE
    /\ UNCHANGED <<heap, call, count, stack, solutions, result, decisions>>

\* A faulty start of "Apply constraints" that copies wake and leaves it as
\* it is.
take_wake_cloned(f) == [f EXCEPT !.pending = f.wake, !.pc = "apply"]
\* let wake = mem::replace(&mut self.wake, BitSet::new());
take_wake(f) == [f EXCEPT !.pending = f.wake, !.wake = {}, !.pc = "apply"]

\* The "gimme" phase of one round of constrain, then the replacement of
\* self.wake by an empty set when constraints are to be applied.
Gimme ==
    /\ Running /\ Top.pc = "constrain" /\ Top.wake # {}
    /\ \E r \in {gimme(TopSearch)} :
       LET f == WithSearch(Top, r.w)
       IN CASE r.st = "ok" ->
                 /\ Continue(IF r.w.wake # {} THEN take_wake(f) ELSE f, r.w.heap)
                 /\ UNCHANGED solutions
            [] r.st = "err" -> Return(r.w, solutions)
            [] r.st = "panic" -> DoPanic
    /\ UNCHANGED <<puzzle, edits, tries, track, prior, expr>>

\* One iteration of "for cidx in wake.iter()": on_updated of the next
\* constraint of the local copy of wake.
Fire ==
    /\ Running /\ Top.pc = "apply"
    /\ LET cidx == Min(Top.pending)
           c == Top.cons.constraints[cidx]
           left == Top.pending \ {cidx}
       IN \E order \in HashOrders(c, TopSearch) :
          \E r \in {on_updated(c, TopSearch, order)} :
            LET f == [WithSearch(Top, r.w) EXCEPT
                        !.pending = left,
                        !.pc = IF left = {} THEN "constrain" ELSE "apply"]
            IN CASE r.st = "ok" -> Continue(f, r.w.heap) /\ UNCHANGED solutions
                 [] r.st = "err" -> Return(r.w, solutions)
                 [] r.st = "panic" -> DoPanic
    /\ UNCHANGED <<puzzle, edits, tries, track, prior, expr>>

\* constrain returned Ok to step, which returns Some(search).
StepDone ==
    /\ Running /\ call = "step" /\ Top.pc = "constrain" /\ Top.wake = {}
    /\ result' = [call |-> "step",
                  ret |-> Some([vars |-> Top.vars, wake |-> Top.wake, cons |-> Top.cons])]
    /\ stack' = <<>>
    /\ call' = "none"
    /\ UNCHANGED <<puzzle, heap, edits, count, solutions, panicked, tries, track, prior,
                   decisions, expr>>

\* The key of min_by_key in solve.
solve_key(w, idx) ==
    IF w.vars[idx].tag = "Unassigned"
    THEN Candidates_len(w.heap, w.vars[idx].cs) ELSE usize_MAX
\* A faulty choice that takes the last variable of least key, as max_by_key
\* does among equal keys.
next_unassigned_last(w) ==
    Max({idx \in DOMAIN w.vars :
            \A other \in DOMAIN w.vars : solve_key(w, idx) <= solve_key(w, other)})
\* next_unassigned: the first variable of least key.
next_unassigned(w) ==
    Min({idx \in DOMAIN w.vars :
            \A other \in DOMAIN w.vars : solve_key(w, idx) <= solve_key(w, other)})

\* constrain returned Ok to solve: a solution is pushed, or the for loop over
\* the candidates of the chosen variable is entered.
Choose ==
    /\ Running /\ call # "step" /\ Top.pc = "constrain" /\ Top.wake = {}
    /\ LET w == TopSearch
           idx == next_unassigned(w)
           values == [i \in DOMAIN w.vars |-> Index(w, i)]
       IN IF DOMAIN w.vars # {} /\ w.vars[idx].tag = "Unassigned"
          THEN IF Candidates_len(heap, w.vars[idx].cs) = 0
               THEN Return(TopSearch, solutions)
               ELSE /\ Continue([Top EXCEPT !.pc = "loop", !.bidx = idx, !.tried = {}], heap)
                    /\ UNCHANGED solutions
          ELSE IF \E i \in DOMAIN values : ~values[i].some
               THEN DoPanic
               ELSE Return(TopSearch, Append(solutions, [i \in DOMAIN values |-> values[i].val]))
    /\ UNCHANGED <<puzzle, edits, tries, track, prior, expr>>

\* The candidates the iterator cs.iter() of the for loop has still to give.
Remaining(f, h) == Candidates_iter(h, f.vars[f.bidx].cs) \ f.tried
\* A faulty count that leaves out the attempts whose assignment fails.
count_guess_if_ok(n, st) == IF st = "ok" THEN n + 1 ELSE n
\* self.puzzle.num_guesses.get() + 1, set before the assignment is attempted.
count_guess(n, st) == n + 1

\* One iteration of the for loop of solve: the next candidate is tried on a
\* clone of the state.
Guess ==
    /\ Running /\ Top.pc = "loop" /\ Remaining(Top, heap) # {}
    /\ LET val == Min(Remaining(Top, heap))
           new == Search(Top, Vec_clone(heap, Top.vars, 0), Len(stack) + 1)
           parent == [Top EXCEPT !.tried = @ \cup {val}]
       IN \E r \in {assign(new, Top.bidx, val)} :
          /\ puzzle' = [puzzle EXCEPT !.num_guesses = count_guess(@, r.st)]
          /\ tries' = tries + 1
          /\ CASE r.st = "ok" ->
                    /\ stack' = Append([stack EXCEPT ![Len(stack)] = parent],
                                       Frame(r.w.vars, r.w.wake, r.w.cons))
                    /\ heap' = r.w.heap
                    /\ decisions' = [decisions EXCEPT
                                        !.cur = Append(@, <<Top.bidx, val>>)]
                    /\ UNCHANGED panicked
               [] r.st = "err" ->
                    /\ stack' = [stack EXCEPT ![Len(stack)] = parent]
                    /\ heap' = Vec_drop(r.w.heap, r.w.vars, 0)
                    /\ UNCHANGED <<panicked, decisions>>
               [] r.st = "panic" ->
                    /\ panicked' = TRUE
                    /\ UNCHANGED <<stack, heap, decisions>>
    /\ UNCHANGED <<edits, call, count, solutions, result, track, prior, expr>>

\* The for loop of solve has run out of candidates.
LoopEnd ==
    /\ Running /\ Top.pc = "loop" /\ Remaining(Top, heap) = {}
    /\ Return(TopSearch, solutions)
    /\ UNCHANGED <<puzzle, edits, tries, track, prior, expr>>

\* A faulty test that lets the search go on until the count is exceeded.
reached_count_exceeded(len, n) == len > n
\* solutions.len() >= count
reached_count(len, n) == len >= n
\* new.solve(count, solutions) has returned.
AfterSolve ==
    /\ Running /\ Top.pc = "after"
    /\ IF reached_count(Len(solutions), count)
       THEN Return(TopSearch, solutions)
       ELSE Continue([Top EXCEPT !.pc = "loop"], heap) /\ UNCHANGED solutions
    /\ UNCHANGED <<puzzle, edits, tries, track, prior, expr>>

Next ==
    \/ NewVar
    \/ NewVarWithCandidates
    \/ SetValue
    \/ InsertCandidates
    \/ RemoveCandidates
    \/ IntersectCandidates
    \/ AllDifferent
    \/ Equals
    \/ Unify
    \/ StartSolve
    \/ StartStep
    \/ Gimme
    \/ Fire
    \/ StepDone
    \/ Choose
    \/ Guess
    \/ LoopEnd
    \/ AfterSolve

Spec == Init /\ [][Next]_vars

\* The same program, with prior kept: the return value of a call can be
\* compared with that of the call made before it.
InitPairs ==
    /\ puzzle = Puzzle_new
    /\ heap = EmptyVec
    /\ edits = 0
    /\ call = "none"
    /\ count = 0
    /\ stack = <<>>
    /\ solutions = <<>>
    /\ result = NoResult
    /\ panicked = FALSE
    /\ tries = 0
    /\ track = TRUE
    /\ prior = NoResult
    /\ decisions = NoDecisions
    /\ expr = LinExpr_from_coef(Ratio_zero)
SpecPairs == InitPairs /\ [][Next]_vars

\* The same program, on puzzles that may also hold an all-different that
\* lists a variable twice.
\* puzzle.all_different(&[v0, v0]);
AllDifferentRepeated ==
    /\ ConstraintGuard
    /\ puzzle.num_vars >= 1
    /\ AddConstraint(Puzzle_all_different(puzzle, <<0, 0>>))
NextRepeated ==
    \/ NewVar
    \/ NewVarWithCandidates
    \/ SetValue
    \/ InsertCandidates
    \/ RemoveCandidates
    \/ IntersectCandidates
    \/ AllDifferent
    \/ AllDifferentRepeated
    \/ Equals
    \/ Unify
    \/ StartSolve
    \/ StartStep
    \/ Gimme
    \/ Fire
    \/ StepDone
    \/ Choose
    \/ Guess
    \/ LoopEnd
    \/ AfterSolve
SpecRepeated == Init /\ [][NextRepeated]_vars

\* The program of Spec with a call that is running taking its next step: the
\* thread that called solve_any, solve_unique, solve_all or step executes it
\* and nothing else. This is weak fairness of the steps of a running call,
\* WF_vars(Running /\ Next), with ENABLED <<Running /\ Next>>_vars written as
\* Running: a running call always has a next step, and each step changes the
\* state (StepReady below).
SpecLive ==
    /\ Init
    /\ [][Next]_vars
    /\ ([]<>(~Running) \/ []<><<Running /\ Next>>_vars)

\* ------------------------------------------------------------------------
\* Building linear expressions: the caller starts from a variable or a
\* constant and applies the operators of linexpr.rs.
\* ------------------------------------------------------------------------
\* The variables expressions are built from.
ExprVars == {0, 1}
\* The scalars expressions are multiplied by (i32 and Rational32).
Scalars == {Ratio_from_integer(-1), Ratio_zero, Ratio_one, Ratio_from_integer(2),
            Ratio_new(1, 2)}
\* LinExpr::from(var) and LinExpr::from(constant)
Atoms == {LinExpr_from_var(x) : x \in ExprVars}
         \cup {LinExpr_from_coef(k) : k \in {Ratio_from_integer(-1), Ratio_zero, Ratio_one}}
\* The right operands of + and -: a variable, a constant, or the sum or
\* difference of two of them.
Operands ==
    Atoms \cup {LinExpr_add(a, b) : a \in Atoms, b \in Atoms}
          \cup {LinExpr_sub(a, b) : a \in Atoms, b \in Atoms}
\* The coefficients stay within the numbers the model keeps.
InRange(q) == Abs(q.numer) <= MaxCoef /\ q.denom <= MaxCoef
Bounded(e) == InRange(e.constant) /\ \A x \in DOMAIN e.coef : InRange(e.coef[x])
Built(e) ==
    /\ Bounded(e)
    /\ expr' = e
    /\ UNCHANGED <<puzzle, heap, edits, call, count, stack, solutions, result, panicked,
                   tries, track, prior, decisions>>
\* let expr = LinExpr::from(..);
ExprFrom ==
    /\ Idle
    /\ \E a \in Atoms : Built(a)
\* let expr = -expr;
ExprNeg ==
    /\ Idle
    /\ Built(LinExpr_neg(expr))
\* let expr = expr + rhs;
ExprAdd ==
    /\ Idle
    /\ \E rhs \in Operands : Built(LinExpr_add(expr, rhs))
\* let expr = expr - rhs;
ExprSub ==
    /\ Idle
    /\ \E rhs \in Operands : Built(LinExpr_sub(expr, rhs))
\* let expr = expr * k;
ExprMul ==
    /\ Idle
    /\ \E k \in Scalars : Built(LinExpr_mul(expr, k))
NextExpr ==
    \/ ExprFrom
    \/ ExprNeg
    \/ ExprAdd
    \/ ExprSub
    \/ ExprMul
SpecExpr == Init /\ [][NextExpr]_vars

\* ------------------------------------------------------------------------
\* What the constraints mean, and what the solve calls have returned.
\* ------------------------------------------------------------------------
\* The values the Puzzle allows for a variable.
InitialCandidates(idx) == Candidates_iter(heap, puzzle.candidates[idx])
\* The total assignment sol satisfies the constraint c.
Satisfies(sol, c) ==
    CASE c.type = "AllDifferent" ->
            \A i, j \in DOMAIN c.vars : i # j => sol[c.vars[i]] # sol[c.vars[j]]
      [] c.type = "Equality" ->
            Ratio_is_zero(Ratio_add(c.eqn.constant,
                                    Equality_sum(c.eqn, sol, DOMAIN c.eqn.coef)))
      [] c.type = "Unify" -> sol[c.var1] = sol[c.var2]
\* The total assignments that take every variable from its initial candidates
\* and satisfy every registered constraint.
TrueSolutions ==
    {sol \in [DOMAIN puzzle.candidates -> 1..MaxVal] :
        /\ \A idx \in DOMAIN sol : sol[idx] \in InitialCandidates(idx)
        /\ \A cidx \in DOMAIN puzzle.constraints : Satisfies(sol, puzzle.constraints[cidx])}
\* The solutions the last call returned.
Returned ==
    CASE result.call = "solve_all" -> SeqRange(result.ret)
      [] result.call \in {"solve_any", "solve_unique"} ->
            IF result.ret.some THEN {result.ret.val} ELSE {}
      [] OTHER -> {}

\* C1: every Solution that solve_any, solve_unique or solve_all returns takes
\* each variable from its initial candidates and satisfies every constraint
\* registered on the Puzzle, equalities whose variables cancel after a
\* unification included.
C1_Soundness == \A sol \in Returned : sol \in TrueSolutions

\* C2: on a Puzzle with variables, the list solve_all returns holds every
\* total assignment that satisfies all the registered constraints, each
\* exactly once, and nothing else: its length is the number of such
\* assignments.
C2_Completeness ==
    (result.call = "solve_all" /\ puzzle.num_vars > 0) =>
        /\ SeqRange(result.ret) = TrueSolutions
        /\ Len(result.ret) = Cardinality(TrueSolutions)

\* C4: on a Puzzle with variables, solve_any returns no Solution exactly when
\* no total assignment satisfies all the registered constraints.
C4_AnyAbsentIffNone ==
    (result.call = "solve_any" /\ puzzle.num_vars > 0) =>
        (~result.ret.some <=> TrueSolutions = {})

\* C3: solve_unique returns a Solution exactly when solve_all, called on the
\* same Puzzle, returns exactly one (it returns nothing when there is none
\* and when there are two or more), and it is that one.
C3_UniqueIffOne ==
    (result.call = "solve_unique" /\ prior.call = "solve_all") =>
        /\ result.ret.some <=> Len(prior.ret) = 1
        /\ result.ret.some => result.ret.val = prior.ret[1]
\* solve_all has returned one solution after guessing, and solve_unique, called
\* next, has returned it.
C3_Witness ==
    /\ result.call = "solve_unique" /\ prior.call = "solve_all"
    /\ Len(prior.ret) = 1 /\ prior.guesses >= 2
    /\ result.ret = Some(prior.ret[1])

\* What a propagator's on_updated leaves behind: the search state, or the
\* contradiction that drops it.
Outcome(r) == IF r.st = "ok" THEN [st |-> "ok", view |-> StateView(r.w, r.w.heap)]
              ELSE [st |-> r.st]
HasEquality(n) ==
    \E cidx \in DOMAIN puzzle.constraints :
        /\ puzzle.constraints[cidx].type = "Equality"
        /\ Cardinality(DOMAIN puzzle.constraints[cidx].eqn.coef) >= n
HasAllDifferent(n) ==
    \E cidx \in DOMAIN puzzle.constraints :
        /\ puzzle.constraints[cidx].type = "AllDifferent"
        /\ Len(puzzle.constraints[cidx].vars) >= n

\* C5: a call repeated on the same Puzzle returns the same solutions in the
\* same order (for step, the same search state) with the same guess count,
\* and every on_updated leaves the same outcome in whatever order the value
\* table of the all-different or the coefficient map of the expression is
\* iterated.
C5_Determinism ==
    /\ (result.call # "none" /\ prior.call = result.call) => ResultView = prior
    /\ (Running /\ Top.pc = "apply") =>
          LET c == Top.cons.constraints[Min(Top.pending)]
              one == Outcome(on_updated(c, TopSearch, CHOOSE o \in HashOrders(c, TopSearch) : TRUE))
          IN \A order \in HashOrders(c, TopSearch) :
                Outcome(on_updated(c, TopSearch, order)) = one
\* solve_all has been run twice on a Puzzle with an equation of three
\* variables and an all-different, with guesses and with two solutions or more.
C5_Witness ==
    /\ result.call = "solve_all" /\ prior.call = "solve_all"
    /\ HasEquality(3) /\ HasAllDifferent(2)
    /\ prior.guesses >= 2 /\ Len(prior.ret) >= 2

\* The search states alive: those of the active calls and the one step
\* returned.
SearchStates ==
    {Search(stack[d], heap, d) : d \in DOMAIN stack}
    \cup (IF result.call = "step" /\ result.ret.some
          THEN {Search(result.ret.val, heap, 1)} ELSE {})
\* The values a variable may still take in a search state.
EffectiveValues(w, idx) ==
    IF is_assigned(w, idx) THEN {get_assigned(w, idx).val} ELSE get_unassigned(w, idx)
Fixed(idx) == puzzle.candidates[idx].kind = "Value"

C7_GuessCount == puzzle.num_guesses = tries
\* A solve call has ended after five candidates were tried, more than it found
\* solutions, and step has been called since.
C7_Witness == result.call = "step" /\ tries >= 5

\* C8: when step returns a search state, its wake-set is empty, no Unassigned
\* variable has zero candidates or exactly one, and the gimme sweep changes
\* nothing.
C8_StepFixedPoint ==
    (result.call = "step" /\ result.ret.some) =>
        LET w == Search(result.ret.val, heap, 1) IN
        /\ w.wake = {}
        /\ \A idx \in DOMAIN w.vars :
              w.vars[idx].tag = "Unassigned" => Candidates_len(heap, w.vars[idx].cs) >= 2
        /\ gimme(w) = Ok(w)

C10_BranchIsolation ==
    [][(call # "none" /\ stack # <<>>) =>
          /\ PuzzleView' = PuzzleView
          /\ \A d \in DOMAIN stack \cap DOMAIN stack' :
                (d < Len(stack) \/ Len(stack') > Len(stack)) =>
                    StateView(stack'[d], heap') = StateView(stack[d], heap)]_vars
\* A child branch works on a private copy of a candidate set that differs from
\* its parent's, after another branch has ended in a solution.
C10_Witness ==
    /\ Len(stack) >= 2 /\ Len(solutions) >= 1
    /\ \E idx \in DOMAIN Top.vars :
          LET pv == stack[Len(stack) - 1].vars[idx] IN
          /\ IsSetCell(pv) /\ IsSetCell(Top.vars[idx])
          /\ Top.vars[idx].cs.rc # pv.cs.rc
          /\ heap[Top.vars[idx].cs.rc].set # heap[pv.cs.rc].set

\* The frames whose call of solve is in its for loop.
BranchFrames == {d \in DOMAIN stack : stack[d].pc \in {"loop", "after"}}
\* The number of candidates of an Unassigned variable of a frame.
FrameLen(f, idx) == Candidates_len(heap, f.vars[idx].cs)
\* The decision path p comes before q: at the first branch point where they
\* part, the same variable was given a smaller value.
LexBefore(p, q) ==
    \E k \in 1..Min({Len(p), Len(q)}) :
        /\ \A j \in 1..(k - 1) : p[j] = q[j]
        /\ p[k][1] = q[k][1] /\ p[k][2] < q[k][2]
\* The solutions found so far in the running call, or returned by solve_all.
Emitted ==
    IF call # "none" THEN solutions
    ELSE IF result.call = "solve_all" THEN result.ret ELSE <<>>
\* The variable a for loop of solve runs over is Unassigned and no Unassigned
\* variable has fewer candidates, nor as many at a lower index.
C11_Selection ==
    \A d \in BranchFrames :
        LET f == stack[d] IN
        /\ f.vars[f.bidx].tag = "Unassigned"
        /\ \A idx \in DOMAIN f.vars :
              f.vars[idx].tag = "Unassigned" =>
                 \/ FrameLen(f, f.bidx) < FrameLen(f, idx)
                 \/ FrameLen(f, f.bidx) = FrameLen(f, idx) /\ f.bidx <= idx
\* Each solution emitted was reached by the decisions recorded for it, and
\* the decisions of an earlier solution come before those of a later one.
C11_Emission ==
    /\ (call \notin {"none", "step"} \/ result.call = "solve_all") =>
          Len(decisions.done) = Len(Emitted)
    /\ \A i \in DOMAIN Emitted :
          i \in DOMAIN decisions.done =>
             \A k \in DOMAIN decisions.done[i] :
                Emitted[i][decisions.done[i][k][1]] = decisions.done[i][k][2]
    /\ \A i, j \in DOMAIN decisions.done :
          i < j => LexBefore(decisions.done[i], decisions.done[j])
\* A candidate taken by a for loop is greater than those taken before it and
\* smaller than those left; it is assigned in a new state on top of the
\* stack, whose values are among those of the looping state, which stays as it
\* was.
C11_Ascending ==
    \A d \in DOMAIN stack \cap DOMAIN stack' :
        (stack[d].pc = "loop" /\ stack'[d].tried # stack[d].tried) =>
            LET f == stack[d]
                cs == Candidates_iter(heap, f.vars[f.bidx].cs)
            IN \E val \in cs \ f.tried :
                  /\ stack'[d].tried = f.tried \cup {val}
                  /\ \A u \in f.tried : u < val
                  /\ \A u \in cs \ stack'[d].tried : val < u
                  /\ d = Len(stack)
                  /\ StateView(stack'[d], heap') = StateView(f, heap)
                  /\ Len(stack') > Len(stack) =>
                        LET new == Search(stack'[Len(stack')], heap', Len(stack'))
                        IN /\ Len(stack') = Len(stack) + 1
                           /\ new.vars[f.bidx] = Assigned(val)
                           /\ decisions'.cur = Append(decisions.cur, <<f.bidx, val>>)
                           /\ \A idx \in DOMAIN f.vars :
                                 EffectiveValues(new, idx)
                                    \subseteq EffectiveValues(Search(f, heap, d), idx)

\* C11: at every branch point the search takes the Unassigned variable with
\* the fewest candidates, the lowest index among equals, and tries its
\* candidates in ascending order, each in a fresh clone of the state; the
\* solutions are emitted in the lexicographic order of the decisions that led
\* to them.
C11_BranchOrder == [](C11_Selection /\ C11_Emission) /\ [][C11_Ascending]_vars
\* Two solutions or more have been found below two branch points, the first
\* of which had to choose among variables with equally many candidates, and a
\* third candidate is being tried.
C11_Witness ==
    /\ call = "solve_all" /\ Len(solutions) >= 2 /\ Len(stack) >= 3
    /\ Len(decisions.done[1]) >= 2
    /\ \E idx \in DOMAIN stack[1].vars \ {stack[1].bidx} :
          /\ stack[1].vars[idx].tag = "Unassigned"
          /\ FrameLen(stack[1], idx) = FrameLen(stack[1], stack[1].bidx)
    /\ Cardinality(stack[1].tried) >= 2

\* The limit of the call: its count argument.
Limit(name) == CountOf(name)
\* A solve call is running.
Solving == call \in {"solve_any", "solve_unique", "solve_all"}
\* The solutions collected never outnumber the limit of the call, neither
\* while it runs nor when it has returned.
C12_WithinLimit ==
    /\ Solving => (count = Limit(call) /\ Len(solutions) <= count)
    /\ result.call \in {"solve_any", "solve_unique", "solve_all"} =>
          Len(decisions.done) <= Limit(result.call)
\* Once the limit is reached, no step of the call tries a candidate, counts a
\* guess or pushes a solution.
C12_NoMoreGuesses ==
    (Solving /\ Len(solutions) >= count) =>
        /\ tries' = tries
        /\ puzzle'.num_guesses = puzzle.num_guesses
        /\ decisions'.done = decisions.done
        /\ Len(stack') < Len(stack)

\* C12: the search stops as soon as the limit of the call is met: the
\* solutions collected never outnumber it (1 for solve_any, 2 for
\* solve_unique), and once it is reached no candidate is tried and the guess
\* counter is not incremented again.
C12_StopAtLimit == []C12_WithinLimit /\ [][C12_NoMoreGuesses]_vars
\* solve_unique has found its second solution three states deep, and the
\* for loops below still have candidates they have not tried.
C12_Witness ==
    /\ call = "solve_unique" /\ Len(solutions) = 2 /\ Len(stack) >= 2
    /\ Top.pc = "after"
    /\ \A d \in DOMAIN stack : Remaining(stack[d], heap) # {}

\* What the accessors of a search state answer for a variable.
Access(w, var) ==
    [is_assigned |-> is_assigned(w, var),
     get_assigned |-> get_assigned(w, var),
     get_unassigned |-> get_unassigned(w, var),
     get_min_max |-> get_min_max(w, var)]
SameAnswers(w, S) == \A x, y \in S : Access(w, x) = Access(w, y)
\* The states a successful set_candidate, remove_candidate or
\* bound_candidate_range on var leaves.
Mutations(w, var) ==
    {r.w : r \in {r \in {set_candidate(w, var, val) : val \in 1..MaxVal}
                         \cup {remove_candidate(w, var, val) : val \in 1..MaxVal} :
                     r.st = "ok"}}
    \cup {b.w : b \in {b \in {bound_candidate_range(w, var, lo, hi) :
                                 lo \in 1..MaxVal, hi \in 1..MaxVal} : b.st = "ok"}}
\* The variables of S have one domain: the accessors agree on them, and still
\* do after a mutation through any of them.
SharesDomain(w, S) ==
    /\ SameAnswers(w, S)
    /\ \A x \in S : \A m \in Mutations(w, x) : SameAnswers(m, S)
\* Unify(var1, var2) is registered on the Puzzle.
HasUnify(var1, var2) ==
    \E cidx \in DOMAIN puzzle.constraints :
        puzzle.constraints[cidx] = Unify_new(var1, var2)
\* Every Unify of the state has been applied: substitution has made its two
\* variables one.
UnifiesApplied(w) ==
    \A cidx \in DOMAIN w.cons.constraints :
        w.cons.constraints[cidx].type = "Unify" =>
            w.cons.constraints[cidx].var1 = w.cons.constraints[cidx].var2

\* The variables of S have the same values left: the value assigned, or the
\* candidates, and so the same minimum and maximum.
SameValues(w, S) ==
    \A x, y \in S :
        /\ EffectiveValues(w, x) = EffectiveValues(w, y)
        /\ get_min_max(w, x) = get_min_max(w, y)
\* constrain has returned Ok on the state of a frame.
Constrained(f) == f.pc \in {"loop", "after"} \/ (f.pc = "constrain" /\ f.wake = {})

\* C13: after unify(a, b) and unify(b, c) have both succeeded on a
\* search state, whether called one after the other where a constraint is
\* applied or through the constraints Unify(a, b) and Unify(b, c), the
\* accessors is_assigned, get_assigned, get_unassigned and get_min_max answer
\* the same for a, b and c, they still do after a mutation through any of the
\* three, and every Solution gives the three the same value.
C13_UnifyTransitive ==
    /\ (Running /\ Top.pc = "apply") =>
          \A a, b, c \in DOMAIN Top.vars :
             (a # b /\ b # c /\ a # c) =>
                LET r1 == unify(TopSearch, a, b)
                    r2 == unify(r1.w, b, c)
                IN (r1.st = "ok" /\ r2.st = "ok") => SharesDomain(r2.w, {a, b, c})
    /\ (HasUnify(0, 1) /\ HasUnify(1, 2)) =>
          /\ \A w \in SearchStates : UnifiesApplied(w) => SharesDomain(w, {0, 1, 2})
          /\ \A sol \in Returned \cup SeqRange(solutions) :
                sol[0] = sol[1] /\ sol[1] = sol[2]

\* What does hold of unification: after unify(a, b) and unify(b, c) have
\* both succeeded on a search state, a, b and c have the same values left
\* (the value assigned or the candidates) and the same get_min_max, and still
\* have after a mutation through any of the three; once constrain has
\* returned Ok on a state of a Puzzle with Unify(v0, v1) and Unify(v1, v2), all
\* four accessors answer the same for the three, also after a mutation; every
\* Solution gives the three the same value.
UnifySameValues ==
    /\ (Running /\ Top.pc = "apply") =>
          \A a, b, c \in DOMAIN Top.vars :
             (a # b /\ b # c /\ a # c) =>
                LET r1 == unify(TopSearch, a, b)
                    r2 == unify(r1.w, b, c)
                IN (r1.st = "ok" /\ r2.st = "ok") =>
                      /\ SameValues(r2.w, {a, b, c})
                      /\ \A x \in {a, b, c} :
                            \A m \in Mutations(r2.w, x) : SameValues(m, {a, b, c})
    /\ (HasUnify(0, 1) /\ HasUnify(1, 2)) =>
          /\ \A d \in DOMAIN stack :
                /\ SameValues(Search(stack[d], heap, d), {0, 1, 2})
                       \/ (d = 1 /\ ~UnifiesApplied(Search(stack[d], heap, d)))
                /\ Constrained(stack[d]) =>
                       SharesDomain(Search(stack[d], heap, d), {0, 1, 2})
          /\ (result.call = "step" /\ result.ret.some) =>
                SharesDomain(Search(result.ret.val, heap, 1), {0, 1, 2})
          /\ \A sol \in Returned \cup SeqRange(solutions) :
                sol[0] = sol[1] /\ sol[1] = sol[2]

\* The Equality constraints of a search state.
Equalities(w) ==
    {w.cons.constraints[cidx] : cidx \in {cidx \in DOMAIN w.cons.constraints :
                                             w.cons.constraints[cidx].type = "Equality"}}
\* The variables of an equation that have no value yet.
Unknowns(c, w) == {x \in DOMAIN c.eqn.coef : ~get_assigned(w, x).some}
\* constant + the sum of coef * value over the variables that have a value.
Partial(c, w) ==
    LET known == DOMAIN c.eqn.coef \ Unknowns(c, w)
    IN Ratio_add(c.eqn.constant,
                 Equality_sum(c.eqn, [x \in known |-> get_assigned(w, x).val], known))
\* The candidates of x that make the equation hold, the others having their
\* values.
Solving_values(c, w, x) ==
    {v \in get_unassigned(w, x) :
        Ratio_is_zero(Ratio_add(Partial(c, w),
                                Ratio_mul(c.eqn.coef[x], Ratio_from_integer(v))))}
\* constant + the sum of coef * value over the variables other than x, which
\* all have a value.
OthersSum(c, w, x) ==
    LET known == DOMAIN c.eqn.coef \ {x}
    IN Ratio_add(c.eqn.constant,
                 Equality_sum(c.eqn, [y \in known |-> get_assigned(w, y).val], known))
\* The state in which assign has just given idx the value val, before the
\* constraints are told.
JustAssigned(w, idx, val) ==
    [w EXCEPT !.heap = Candidates_drop(w.heap, w.vars[idx].cs),
              !.vars[idx] = Assigned(val)]
\* The search states alive, and those with one more variable assigned to one
\* of its candidates.
AssignStates ==
    SearchStates \cup
    UNION {{JustAssigned(w, idx, val) :
                val \in IF w.vars[idx].tag = "Unassigned"
                        THEN Candidates_iter(w.heap, w.vars[idx].cs) ELSE {}} :
              w \in SearchStates,
              idx \in {i \in 0..(MaxVars - 1) : i < puzzle.num_vars}}

SameDomains(n) ==
    /\ puzzle.num_vars = n
    /\ \A idx \in DOMAIN puzzle.candidates :
          /\ puzzle.candidates[idx].kind = "Set"
          /\ InitialCandidates(idx) = InitialCandidates(0)
          /\ Cardinality(InitialCandidates(idx)) = n
    /\ VLen(puzzle.constraints) = 1
    /\ puzzle.constraints[0].type = "AllDifferent"
    /\ SeqRange(puzzle.constraints[0].vars) = DOMAIN puzzle.candidates
\* step has returned a state in which no variable is assigned and every
\* variable has its initial candidates.
Untouched ==
    /\ result.ret.some
    /\ \A idx \in DOMAIN puzzle.candidates :
          LET w == Search(result.ret.val, heap, 1) IN
          /\ w.vars[idx].tag = "Unassigned"
          /\ ~is_assigned(w, idx)
          /\ get_unassigned(w, idx) = InitialCandidates(idx)

\* C15 as stated: for every n >= 1, with n variables under one all-different,
\* each with the same n candidates, step returns a state in which no variable
\* is assigned and no domain has changed.
C15_Ambiguous ==
    \A n \in 1..MaxVars : (result.call = "step" /\ SameDomains(n)) => Untouched
\* C15, amended: for every n >= 2, with n variables under one all-different,
\* each with the same n candidates, step returns a state in which no variable
\* is assigned and no domain has changed.
C15_AmbiguousFromTwo ==
    \A n \in 2..MaxVars : (result.call = "step" /\ SameDomains(n)) => Untouched
\* step has returned on three variables with the candidates 1, 2, 3 under one
\* all-different.
C15_Witness ==
    /\ result.call = "step" /\ SameDomains(3)
    /\ InitialCandidates(0) = 1..3

\* No entry of the coefficient map is zero.
Normalized(e) == \A x \in DOMAIN e.coef : ~Ratio_is_zero(e.coef[x])

\* C16: an expression built from variables and constants with negation,
\* addition, subtraction and multiplication by a scalar has no entry with
\* coefficient zero; an expression minus itself, x - x and (x + y) - (x + y)
\* among them, and an expression times zero have no variable left.
C16_NoZeroCoef ==
    /\ Normalized(expr)
    /\ LinExpr_sub(expr, expr).coef = EmptyVec
    /\ LinExpr_mul(expr, Ratio_zero).coef = EmptyVec
    /\ \A rhs \in Operands :
          /\ Normalized(LinExpr_add(expr, rhs))
          /\ Normalized(LinExpr_sub(expr, rhs))
          /\ LinExpr_sub(rhs, rhs).coef = EmptyVec
\* An expression of the two variables, with a fraction among its coefficients,
\* from which subtracting a variable leaves one variable.
C16_Witness ==
    /\ DOMAIN expr.coef = ExprVars
    /\ \E x \in ExprVars : expr.coef[x].denom = 2
    /\ \E x \in ExprVars : DOMAIN LinExpr_sub(expr, LinExpr_from_var(x)).coef = ExprVars \ {x}

\* ------------------------------------------------------------------------
\* C17: on a Puzzle with no declared variables solve_any, solve_unique,
\* solve_all and step return without panicking and without starting a
\* search (no PuzzleSearch is built, so the gimme sweep is never entered):
\* solve_any, solve_unique and step return None, solve_all returns an empty
\* list, and num_guesses() is 0 after each call.
\* ------------------------------------------------------------------------
NoVars == puzzle.num_vars = 0
Absent(name) == IF name = "solve_all" THEN <<>> ELSE None
C17_Returned ==
    NoVars =>
        /\ ~panicked
        /\ call = "none" /\ stack = <<>>
        /\ puzzle.num_guesses = 0
        /\ result # NoResult => result.ret = Absent(result.call)
C17_Calls ==
    (NoVars /\ call' # call) \/ (NoVars /\ result' # result) =>
        /\ result'.call \in {"solve_any", "solve_unique", "solve_all", "step"}
        /\ result'.ret = Absent(result'.call)
        /\ call' = "none" /\ stack' = <<>> /\ ~panicked'
        /\ puzzle'.num_guesses = 0
C17_NoVars == []C17_Returned /\ [][C17_Calls]_vars
C17_Witness ==
    /\ NoVars
    /\ result.call = "solve_all" /\ result.ret = <<>>
    /\ puzzle.num_guesses = 0 /\ ~panicked
\* ------------------------------------------------------------------------
\* C18: whenever the search branches, the selected variable has at least two
\* candidates: none with zero (propagation has reported it) and none with
\* exactly one (the gimme pass has assigned it), for every puzzle, those
\* with no constraints and those with only Unify constraints included.
\* ------------------------------------------------------------------------
C18_BranchOnTwo ==
    \A d \in BranchFrames :
        /\ stack[d].vars[stack[d].bidx].tag = "Unassigned"
        /\ FrameLen(stack[d], stack[d].bidx) >= 2
\* What the test of cs.len() in solve does give: the for loop is not entered
\* on a variable with no candidates.
BranchOnSome ==
    \A d \in BranchFrames :
        /\ stack[d].vars[stack[d].bidx].tag = "Unassigned"
        /\ FrameLen(stack[d], stack[d].bidx) >= 1
\* ------------------------------------------------------------------------
\* C19: after AllDifferent.on_assigned(var, val) returns ok, no other
\* variable watched by the constraint has val among its candidates or as its
\* assigned value; it returns a contradiction exactly when some other
\* watched variable is already assigned or fixed to val, or is left with no
\* candidates by the removal.
\* ------------------------------------------------------------------------
\* The AllDifferent constraints of a search state.
AllDifferents(w) ==
    {w.cons.constraints[cidx] : cidx \in {cidx \in DOMAIN w.cons.constraints :
                                             w.cons.constraints[cidx].type = "AllDifferent"}}
\* The variables of the constraint other than var.
Others(c, var) == SeqRange(c.vars) \ {var}
\* The cell a variable stands for: its own, or that of the variable it is
\* unified with.
RECURSIVE Cell(_, _)
Cell(w, var) == IF w.vars[var].tag = "Unified" THEN Cell(w, w.vars[var].var) ELSE w.vars[var]
\* The variable has the value val, or is fixed to it.
HasValue(w, var2, val) ==
    \/ Cell(w, var2) = Assigned(val)
    \/ Cell(w, var2) = Unassigned(Candidates_Value(val))
\* The variable is Unassigned and has no candidate other than val.
Emptied(w, var2, val) ==
    ~is_assigned(w, var2) /\ get_unassigned(w, var2) \ {val} = {}
\* The calls on_assigned(var, val) on a constraint of a state, var being
\* watched by it: those that assign makes, var having just been given val,
\* and those that a caller holding the state may make.
OnAssignedCalls(w) ==
    {oa \in AllDifferents(w) \X (DOMAIN w.vars) \X (1..MaxVal) :
        oa[2] \in SeqRange(oa[1].vars)}
\* Those among them in which var is Assigned val.
AssignedCalls(w) == {oa \in OnAssignedCalls(w) : w.vars[oa[2]] = Assigned(oa[3])}
C19_Removal ==
    \A w \in AssignStates : \A oa \in OnAssignedCalls(w) :
        LET c == oa[1]
            var == oa[2]
            val == oa[3]
            r == AllDifferent_on_assigned(c, w, var, val)
        IN /\ r.st \in {"ok", "err"}
           /\ r.st = "err" <=>
                 \E var2 \in Others(c, var) :
                    HasValue(w, var2, val) \/ Emptied(w, var2, val)
           /\ r.st = "ok" =>
                 \A var2 \in Others(c, var) :
                    /\ val \notin EffectiveValues(r.w, var2)
                    /\ EffectiveValues(r.w, var2) = EffectiveValues(w, var2) \ {val}
\* In a search state between two steps, the value of an Assigned variable
\* of an all-different is no longer possible for the others.
C19_Removed ==
    \A w \in SearchStates : \A oa \in AssignedCalls(w) :
        \A var2 \in Others(oa[1], oa[2]) : oa[3] \notin EffectiveValues(w, var2)
C19_OnAssigned == C19_Removal /\ C19_Removed
\* step has returned a state in which a variable of an all-different is
\* Assigned a value that another variable of it had among its initial
\* candidates and has no longer, while it is still Unassigned.
C19_Witness ==
    /\ result.call = "step" /\ result.ret.some
    /\ LET w == Search(result.ret.val, heap, 1) IN
       \E oa \in AssignedCalls(w) : \E var2 \in Others(oa[1], oa[2]) :
          /\ oa[3] \in InitialCandidates(var2)
          /\ w.vars[var2].tag = "Unassigned"
          /\ get_unassigned(w, var2) = InitialCandidates(var2) \ {oa[3]}
          /\ Cardinality(get_unassigned(w, var2)) >= 2
\* ------------------------------------------------------------------------
\* C20: AllDifferent.on_updated reports a contradiction whenever the number
\* k of its still-Unassigned variables exceeds the size of the union U of
\* their candidates, and never reports one when k <= |U| and every forced
\* assignment succeeds.
\* ------------------------------------------------------------------------
\* The watched variables that are not assigned, and the union of their
\* candidates.
StillUnassigned(c, w) == {var \in SeqRange(c.vars) : ~is_assigned(w, var)}
Union(c, w) == UNION {get_unassigned(w, var) : var \in StillUnassigned(c, w)}
\* The values of the union that only the variable var can take.
ForcedOn(c, w, var) ==
    {val \in get_unassigned(w, var) :
        \A other \in StillUnassigned(c, w) \ {var} : val \notin get_unassigned(w, other)}
\* A forced assignment fails: a variable is the only one that can take a
\* value and, having been given another value for the same reason, has lost
\* it.
ForcedFails(c, w) ==
    \E var \in StillUnassigned(c, w) : Cardinality(ForcedOn(c, w, var)) >= 2
C20_Pigeonhole ==
    \A w \in SearchStates : \A c \in AllDifferents(w) : \A order \in HashOrders(c, w) :
        LET k == Cardinality(StillUnassigned(c, w))
            U == Union(c, w)
            r == AllDifferent_on_updated(c, w, order)
        IN /\ r.st \in {"ok", "err"}
           /\ k > Cardinality(U) => r.st = "err"
           /\ k < Cardinality(U) => r = Ok(w)
           /\ k = Cardinality(U) => (r.st = "err" <=> ForcedFails(c, w))
\* step has returned None on a Puzzle that is one all-different over all its
\* variables, each of which has two candidates or more, with fewer values
\* than variables: no variable was assigned and on_updated alone reported
\* the contradiction.
C20_Witness ==
    /\ result.call = "step" /\ ~result.ret.some
    /\ VLen(puzzle.constraints) = 1
    /\ puzzle.constraints[0].type = "AllDifferent"
    /\ SeqRange(puzzle.constraints[0].vars) = DOMAIN puzzle.candidates
    /\ \A idx \in DOMAIN puzzle.candidates : Cardinality(InitialCandidates(idx)) >= 2
    /\ Cardinality(UNION {InitialCandidates(idx) : idx \in DOMAIN puzzle.candidates})
          < puzzle.num_vars
\* ------------------------------------------------------------------------
\* C21: when the number of Unassigned variables of an all-different equals
\* the size of the union U of their candidates, on_updated shrinks to {v} the
\* domain of each variable x that is the only bearer of some value v of U and
\* leaves every other domain unchanged; when the number is smaller than |U|
\* it shrinks nothing.
\* ------------------------------------------------------------------------
\* The variables that are the only bearer of some value.
Forced(c, w) == {var \in StillUnassigned(c, w) : ForcedOn(c, w, var) # {}}
C21_ForcedValues ==
    \A w \in SearchStates : \A c \in AllDifferents(w) : \A order \in HashOrders(c, w) :
        LET k == Cardinality(StillUnassigned(c, w))
            r == AllDifferent_on_updated(c, w, order)
        IN /\ (k = Cardinality(Union(c, w)) /\ r.st = "ok") =>
                 /\ \A var \in Forced(c, w) :
                       /\ ~is_assigned(r.w, var)
                       /\ get_unassigned(r.w, var) = ForcedOn(c, w, var)
                       /\ Cardinality(ForcedOn(c, w, var)) = 1
                 /\ \A idx \in DOMAIN w.vars \ Forced(c, w) :
                       CellView(r.w.vars[idx], r.w.heap) = CellView(w.vars[idx], w.heap)
           /\ k < Cardinality(Union(c, w)) =>
                 /\ r.st = "ok"
                 /\ \A idx \in DOMAIN w.vars :
                       CellView(r.w.vars[idx], r.w.heap) = CellView(w.vars[idx], w.heap)
\* step has returned a state on a Puzzle that is one all-different over all
\* its variables, as many as there are values, each with two candidates or
\* more: a variable that alone had some value to begin with is Assigned it.
C21_Witness ==
    /\ result.call = "step" /\ result.ret.some
    /\ VLen(puzzle.constraints) = 1
    /\ puzzle.constraints[0].type = "AllDifferent"
    /\ SeqRange(puzzle.constraints[0].vars) = DOMAIN puzzle.candidates
    /\ \A idx \in DOMAIN puzzle.candidates : Cardinality(InitialCandidates(idx)) >= 2
    /\ Cardinality(UNION {InitialCandidates(idx) : idx \in DOMAIN puzzle.candidates})
          = puzzle.num_vars
    /\ \E x \in DOMAIN puzzle.candidates : \E v \in InitialCandidates(x) :
          /\ \A y \in DOMAIN puzzle.candidates \ {x} : v \notin InitialCandidates(y)
          /\ result.ret.val.vars[x] = Assigned(v)
\* ------------------------------------------------------------------------
\* C22: Equality.on_updated returns a contradiction whenever the feasible
\* range [sum_min, sum_max] of its expression, computed from the current
\* minimum and maximum of each variable, does not include zero, for every
\* Equality, one whose expression has no variables included.
\* ------------------------------------------------------------------------
\* The feasible range of the expression of c in the state w: [st, sum_min,
\* sum_max], st being "err" when a variable has no minimum.
Range(c, w) ==
    Equality_sums(c.eqn, w, CHOOSE order \in Orders(DOMAIN c.eqn.coef) : TRUE, 1,
                  c.eqn.constant, c.eqn.constant)
Infeasible(c, w) ==
    Range(c, w).st = "ok" /\ ~Equality_feasible(Range(c, w).sum_min, Range(c, w).sum_max)
C22_RangeExcludesZero ==
    \A w \in SearchStates : \A c \in Equalities(w) : \A order \in HashOrders(c, w) :
        Infeasible(c, w) => Equality_on_updated(c, w, order).st = "err"
\* What the test in the round-robin loop gives: the same for an expression
\* that has a variable.
RangeExcludesZeroWithVars ==
    \A w \in SearchStates : \A c \in Equalities(w) : \A order \in HashOrders(c, w) :
        (Infeasible(c, w) /\ DOMAIN c.eqn.coef # {}) =>
            Equality_on_updated(c, w, order).st = "err"
\* ------------------------------------------------------------------------
\* C23: when Equality.on_updated returns ok, bounds propagation is at a fixed
\* point and has not over-pruned: for every unassigned variable x with
\* coefficient c, the minimum and maximum of x lie within the integer bounds
\* derived from the minima and maxima of the other terms (ceiling for the
\* lower bound, floor for the upper one, the roles of the sums swapped when
\* c is negative), and the only values removed from a domain are values
\* outside those bounds.
\* ------------------------------------------------------------------------
\* The least and the greatest value of constant + the terms other than x.
OthersLow(c, w, x) ==
    LET others == DOMAIN c.eqn.coef \ {x}
    IN Ratio_add(c.eqn.constant,
                 Equality_sum(c.eqn,
                              [y \in others |-> IF Ratio_gt(c.eqn.coef[y], Ratio_zero)
                                                 THEN get_min_max(w, y).min
                                                 ELSE get_min_max(w, y).max], others))
OthersHigh(c, w, x) ==
    LET others == DOMAIN c.eqn.coef \ {x}
    IN Ratio_add(c.eqn.constant,
                 Equality_sum(c.eqn,
                              [y \in others |-> IF Ratio_gt(c.eqn.coef[y], Ratio_zero)
                                                 THEN get_min_max(w, y).max
                                                 ELSE get_min_max(w, y).min], others))
\* The integer bounds on x that c * x + others = 0 gives.
LowerBound(c, w, x) ==
    Ratio_to_integer(Ratio_ceil(Ratio_div(
        Ratio_neg(IF Ratio_gt(c.eqn.coef[x], Ratio_zero)
                  THEN OthersHigh(c, w, x) ELSE OthersLow(c, w, x)), c.eqn.coef[x])))
UpperBound(c, w, x) ==
    Ratio_to_integer(Ratio_floor(Ratio_div(
        Ratio_neg(IF Ratio_gt(c.eqn.coef[x], Ratio_zero)
                  THEN OthersLow(c, w, x) ELSE OthersHigh(c, w, x)), c.eqn.coef[x])))
C23_BoundsFixedPoint ==
    \A w \in SearchStates : \A c \in Equalities(w) : \A order \in HashOrders(c, w) :
        LET r == Equality_on_updated(c, w, order) IN
        r.st = "ok" =>
            /\ \A x \in DOMAIN c.eqn.coef :
                  ~is_assigned(r.w, x) =>
                     /\ get_min_max(r.w, x).st = "ok"
                     /\ LowerBound(c, r.w, x) <= get_min_max(r.w, x).min
                     /\ get_min_max(r.w, x).max <= UpperBound(c, r.w, x)
                     /\ \A v \in EffectiveValues(w, x) \ EffectiveValues(r.w, x) :
                           v < LowerBound(c, r.w, x) \/ UpperBound(c, r.w, x) < v
            /\ \A idx \in DOMAIN w.vars :
                  (idx \notin DOMAIN c.eqn.coef \/ is_assigned(r.w, idx)) =>
                     CellView(r.w.vars[idx], r.w.heap) = CellView(w.vars[idx], w.heap)
\* step has returned a state on a Puzzle whose only constraint is an
\* Equality: a variable of it has lost candidates and has two or more left.
C23_Witness ==
    /\ result.call = "step" /\ result.ret.some
    /\ VLen(puzzle.constraints) = 1
    /\ puzzle.constraints[0].type = "Equality"
    /\ LET w == Search(result.ret.val, heap, 1) IN
       \E x \in DOMAIN puzzle.constraints[0].eqn.coef :
          /\ w.vars[x].tag = "Unassigned"
          /\ Cardinality(get_unassigned(w, x)) >= 2
          /\ get_unassigned(w, x) # InitialCandidates(x)
          /\ get_unassigned(w, x) \subseteq InitialCandidates(x)
\* ------------------------------------------------------------------------
\* C24: in search.unify(a, b), when exactly one of the two variables is
\* Assigned, the Unassigned one is chosen as from (it becomes Redirected) and
\* the Assigned one as to (it survives and stays Assigned).
\* ------------------------------------------------------------------------
\* The calls unify(a, b) on the state in which a constraint is applied, one
\* of a and b being Assigned and the other Unassigned, that return ok:
\* <<assigned, unassigned, state returned>>.
MixedUnifications ==
    IF Running /\ Top.pc = "apply"
    THEN {m \in {<<IF Top.vars[ab[1]].tag = "Assigned" THEN ab[1] ELSE ab[2],
                   IF Top.vars[ab[1]].tag = "Assigned" THEN ab[2] ELSE ab[1],
                   unify(TopSearch, ab[1], ab[2])>> :
                     ab \in {ab \in (DOMAIN Top.vars) \X (DOMAIN Top.vars) :
                                {Top.vars[ab[1]].tag, Top.vars[ab[2]].tag}
                                   = {"Assigned", "Unassigned"}}} :
             m[3].st = "ok"}
    ELSE {}
C24_AssignedSurvives ==
    \A m \in MixedUnifications :
        /\ m[3].w.vars[m[2]] = Unified(m[1])
        /\ m[3].w.vars[m[1]] = Top.vars[m[1]]
\* What the code does: the Assigned variable is redirected to the Unassigned
\* one, which stays Unassigned with the value as its only candidate.
AssignedRedirected ==
    \A m \in MixedUnifications :
        /\ m[3].w.vars[m[1]] = Unified(m[2])
        /\ m[3].w.vars[m[2]].tag = "Unassigned"
        /\ get_unassigned(m[3].w, m[2]) = {Top.vars[m[1]].val}
\* ------------------------------------------------------------------------
\* C25: after search.unify(a, b) succeeds on two distinct variables that are
\* not both Assigned, exactly one of them (from) is Redirected to the other
\* (to), the candidate set of the survivor is the intersection of the two
\* previous candidate sets, and every lookup on from returns what the same
\* lookup on to returns; unify returns a contradiction when that
\* intersection is empty.
\* ------------------------------------------------------------------------
\* The pairs unify may be called on without a panic or the comparison of two
\* values: distinct, neither Unified, not both Assigned.
Unifiable(w) ==
    {ab \in (DOMAIN w.vars) \X (DOMAIN w.vars) :
        /\ ab[1] # ab[2]
        /\ "Unified" \notin {w.vars[ab[1]].tag, w.vars[ab[2]].tag}
        /\ {w.vars[ab[1]].tag, w.vars[ab[2]].tag} # {"Assigned"}}
\* unify(a, b) on w has the effect the claim states.
UnifyMerges(w, a, b) ==
    LET r == unify(w, a, b)
        both == EffectiveValues(w, a) \cap EffectiveValues(w, b)
    IN /\ both = {} => r.st = "err"
       /\ r.st = "ok" =>
             \E ft \in {<<a, b>>, <<b, a>>} :
                /\ r.w.vars[ft[1]] = Unified(ft[2])
                /\ r.w.vars[ft[2]].tag # "Unified"
                /\ EffectiveValues(r.w, ft[2]) = both
                /\ Access(r.w, ft[1]) = Access(r.w, ft[2])
C25_UnifyIntersects ==
    \A w \in SearchStates : \A ab \in Unifiable(w) : UnifyMerges(w, ab[1], ab[2])
\* The same of the calls made where a constraint is applied, after the gimme
\* pass of the round.
UnifyIntersectsApplied ==
    (Running /\ Top.pc = "apply") =>
        \A ab \in Unifiable(TopSearch) : UnifyMerges(TopSearch, ab[1], ab[2])
\* ------------------------------------------------------------------------
\* C26: search.unify(a, a) returns ok and changes nothing; search.unify(a, b)
\* on two Assigned variables returns ok if and only if they hold the same
\* value, and in either outcome changes no cell, no domain, no propagator and
\* no wake bit.
\* ------------------------------------------------------------------------
C26_UnifyTrivial ==
    \A w \in SearchStates : \A a, b \in DOMAIN w.vars :
        /\ unify(w, a, a) = Ok(w)
        /\ (a # b /\ w.vars[a].tag = "Assigned" /\ w.vars[b].tag = "Assigned") =>
              unify(w, a, b) = IF w.vars[a].val = w.vars[b].val THEN Ok(w) ELSE Err(w)
\* step has returned a state that still holds Unify(a, b), a and b distinct
\* and both Assigned the same value: the propagator has compared them and
\* left everything as it was.
C26_Witness ==
    /\ result.call = "step" /\ result.ret.some
    /\ LET w == Search(result.ret.val, heap, 1) IN
       \E cidx \in DOMAIN w.cons.constraints :
          LET c == w.cons.constraints[cidx] IN
          /\ c.type = "Unify" /\ c.var1 # c.var2
          /\ w.vars[c.var1].tag = "Assigned" /\ w.vars[c.var2] = w.vars[c.var1]
          /\ w.cons.constraints = puzzle.constraints
\* ------------------------------------------------------------------------
\* C27: in every reachable search state the redirect links between variable
\* cells form no cycle: following Redirected targets from any variable
\* reaches a cell that is not Redirected in at most (number of variables - 1)
\* steps, after any sequence of unifications driven by Unify constraints.
\* ------------------------------------------------------------------------
\* Following the links from var reaches a cell that is not Unified within
\* the given number of steps.
RECURSIVE Resolves(_, _, _)
Resolves(w, var, steps) ==
    \/ w.vars[var].tag # "Unified"
    \/ steps > 0 /\ Resolves(w, w.vars[var].var, steps - 1)
C27_NoCycle ==
    \A w \in SearchStates : \A var \in DOMAIN w.vars :
        Resolves(w, var, VLen(w.vars) - 1)
\* A search state in which a chain of two links has formed: one variable is
\* Unified to a second, which is Unified to a third.
C27_Witness ==
    \E w \in SearchStates : \E a, b \in DOMAIN w.vars :
        /\ w.vars[a] = Unified(b)
        /\ w.vars[b].tag = "Unified"
        /\ ~Resolves(w, a, 1)
\* ------------------------------------------------------------------------
\* C28: after every successful substitution step of search.unify(from, to)
\* the watcher index matches the installed propagator list (propagator c is
\* in the watcher set of variable v exactly when v is in c.vars()) and no
\* propagator watches the redirected variable from, so the assertion that
\* the watcher set of from is empty never fails, for any puzzle built from
\* all_different, equals and unify, an all-different that lists the same
\* variable more than once included.
\* ------------------------------------------------------------------------
\* The watcher index of a PuzzleConstraints matches its constraint list.
IndexMatches(cons) ==
    \A v \in DOMAIN cons.wake : \A cidx \in DOMAIN cons.constraints :
        cidx \in cons.wake[v] <=> v \in Constraint_vars(cons.constraints[cidx])
C28_WatchersMatch ==
    /\ \A w \in SearchStates :
          /\ IndexMatches(w.cons)
          /\ \A v \in DOMAIN w.vars : w.vars[v].tag = "Unified" => w.cons.wake[v] = {}
    /\ (Running /\ Top.pc = "apply") =>
          \A ab \in Unifiable(TopSearch) :
             LET sub == PuzzleConstraints_substitute(
                            Top.cons, unify_order(TopSearch, ab[1], ab[2]).from,
                            unify_order(TopSearch, ab[1], ab[2]).to)
             IN sub.st = "ok" =>
                   /\ IndexMatches(sub.cons)
                   /\ sub.cons.wake[unify_order(TopSearch, ab[1], ab[2]).from] = {}
                   /\ unify(TopSearch, ab[1], ab[2]).st # "panic"
\* The same on puzzles whose all-different constraints list distinct
\* variables.
WatchersMatchDistinct == C28_WatchersMatch
\* ------------------------------------------------------------------------
\* C29: AllDifferent.substitute(from, to) returns a contradiction exactly
\* when both from and to already appear in the variable set of the
\* constraint; in every other case it produces a new all-different whose
\* variables are the old ones with from replaced by to, and the original
\* constraint is left unchanged.
\* ------------------------------------------------------------------------
\* The variable list with every entry from replaced by to.
Replaced(vs, from, to) == [i \in DOMAIN vs |-> IF vs[i] = from THEN to ELSE vs[i]]
\* substitute(from, to) on c does as the claim states.
SubstituteSwaps(c, from, to) ==
    LET r == AllDifferent_substitute(c, from, to)
    IN IF from \in SeqRange(c.vars) /\ to \in SeqRange(c.vars)
       THEN r.st = "err"
       ELSE r.st = "ok" /\ r.c = AllDifferent_new(Replaced(c.vars, from, to))
C29_SubstituteAllDifferent ==
    \A w \in SearchStates : \A c \in AllDifferents(w) :
        \A from, to \in DOMAIN w.vars :
            from # to => SubstituteSwaps(c, from, to)
\* The same of the calls PuzzleConstraints::substitute makes, which are on
\* the constraints that watch from.
SubstituteWatched ==
    \A w \in SearchStates : \A c \in AllDifferents(w) :
        \A from, to \in DOMAIN w.vars :
            (from # to /\ from \in SeqRange(c.vars)) => SubstituteSwaps(c, from, to)
\* ------------------------------------------------------------------------
\* C30: Equality.substitute(from, to) yields an Equality over the expression
\* in which the coefficient of from has been added to that of to: from no
\* longer appears, the entry of to is deleted when the sum is zero, the
\* constant and all other coefficients are unchanged, the call never returns
\* a contradiction, and the result holds exactly for the assignments that
\* satisfied the original with from = to.
\* ------------------------------------------------------------------------
\* The coefficient of a variable, zero when it has no entry.
CoefOf(eqn, x) == IF x \in DOMAIN eqn.coef THEN eqn.coef[x] ELSE Ratio_zero
\* The total assignments of a search state in which from and to are equal.
Merged(w, from, to) == {sol \in [DOMAIN w.vars -> 1..MaxVal] : sol[from] = sol[to]}
SubstituteSums(w, c, from, to) ==
    \A r \in {Equality_substitute(c, from, to)} :
    \A sum \in {Ratio_add(CoefOf(c.eqn, from), CoefOf(c.eqn, to))} :
       /\ r.st = "ok"
       /\ r.c.type = "Equality"
       /\ from \notin DOMAIN r.c.eqn.coef
       /\ to \in DOMAIN r.c.eqn.coef <=> ~Ratio_is_zero(sum)
       /\ to \in DOMAIN r.c.eqn.coef => r.c.eqn.coef[to] = sum
       /\ r.c.eqn.constant = c.eqn.constant
       /\ DOMAIN r.c.eqn.coef \ {to} = DOMAIN c.eqn.coef \ {from, to}
       /\ \A x \in DOMAIN c.eqn.coef \ {from, to} : r.c.eqn.coef[x] = c.eqn.coef[x]
       /\ \A sol \in Merged(w, from, to) : Satisfies(sol, r.c) <=> Satisfies(sol, c)
       /\ (DOMAIN r.c.eqn.coef = {} /\ ~Ratio_is_zero(r.c.eqn.constant))
            => \A sol \in [DOMAIN w.vars -> 1..MaxVal] : ~Satisfies(sol, r.c)
C30_SubstituteEquality ==
    \A w \in SearchStates : \A c \in Equalities(w) :
        \A from, to \in DOMAIN w.vars :
            from # to => SubstituteSums(w, c, from, to)
\* A search state holds an equation that unify has substituted, in which
\* the coefficients of from and to summed to zero and left no variable.
C30_Witness ==
    \E w \in SearchStates : \E cidx \in DOMAIN w.cons.constraints :
        LET c == puzzle.constraints[cidx]
            s == w.cons.constraints[cidx]
        IN /\ c.type = "Equality"
           /\ s # c
           /\ DOMAIN s.eqn.coef = {}
           /\ ~Ratio_is_zero(s.eqn.constant)
           /\ \E from, to \in DOMAIN c.eqn.coef :
                /\ from # to
                /\ w.vars[from].tag = "Unified"
                /\ s = Equality_substitute(c, from, to).c
\* ------------------------------------------------------------------------
\* C31: every propagator registered on the Puzzle is in the initial wake-set,
\* so by the time step returns a state or the first branch is taken the
\* on_updated of each propagator has run at least once; in particular every
\* Unify(a, b) declared on the Puzzle has been lifted into the search state:
\* a and b resolve to the same cell or hold equal assigned values.
\* ------------------------------------------------------------------------
\* The variable whose cell stands for var.
RECURSIVE Root(_, _, _)
Root(w, var, steps) ==
    IF w.vars[var].tag = "Unified" /\ steps > 0
    THEN Root(w, w.vars[var].var, steps - 1) ELSE var
\* The search states on which constrain has returned Ok.
ConstrainedStates ==
    {Search(stack[d], heap, d) : d \in {d \in DOMAIN stack : Constrained(stack[d])}}
    \cup (IF result.call = "step" /\ result.ret.some
          THEN {Search(result.ret.val, heap, 1)} ELSE {})
\* The variables of the constraint Unify(a, b) are one in the state w.
Lifted(w, c) ==
    \/ Root(w, c.var1, VLen(w.vars)) = Root(w, c.var2, VLen(w.vars))
    \/ /\ is_assigned(w, c.var1) /\ is_assigned(w, c.var2)
       /\ get_assigned(w, c.var1) = get_assigned(w, c.var2)
UnifiesLifted ==
    \A w \in ConstrainedStates : \A cidx \in DOMAIN puzzle.constraints :
        puzzle.constraints[cidx].type = "Unify" => Lifted(w, puzzle.constraints[cidx])
\* A search starts with every constraint in wake.
StartsAwake ==
    (stack = <<>> /\ stack' # <<>>) =>
        /\ Len(stack') = 1
        /\ stack'[1].pc = "constrain"
        /\ stack'[1].wake = DOMAIN puzzle'.constraints
\* The first round of constrain on the state of a search that goes on takes
\* every constraint into the local copy of wake.
FirstRoundTakesAll ==
    (/\ Len(stack) = 1 /\ Top.pc = "constrain" /\ Top.wake # {}
     /\ Top.wake = DOMAIN puzzle.constraints
     /\ stack' # <<>> /\ stack' # stack) =>
        /\ Len(stack') = 1
        /\ stack'[1].pc = "apply"
        /\ stack'[1].pending = DOMAIN puzzle.constraints
\* While constraints are applied, a step that goes on with the state has
\* called on_updated of the least constraint of the local copy and of no
\* other, and the loop is left only when the copy is empty.
FiresOneByOne ==
    (/\ stack # <<>> /\ Top.pc = "apply"
     /\ Len(stack') = Len(stack) /\ stack' # stack) =>
        /\ Top.pending # {}
        /\ stack'[Len(stack)].pending = Top.pending \ {Min(Top.pending)}
        /\ stack'[Len(stack)].pc = "apply" <=> stack'[Len(stack)].pending # {}
        /\ stack'[Len(stack)].pc \in {"apply", "constrain"}
\* constrain returns Ok, to step or to the choice of a variable, only on a
\* state whose local copy of wake has been used up.
EndsDrained ==
    /\ \A d \in DOMAIN stack : stack[d].pc # "apply" => stack[d].pending = {}
    /\ (result.call = "step" /\ result.ret.some) => result.ret.val.wake = {}
C31_InitialWake ==
    /\ [](UnifiesLifted /\ EndsDrained)
    /\ [][StartsAwake /\ FirstRoundTakesAll /\ FiresOneByOne]_vars
\* step has returned a state on a Puzzle with two constraints, one of them a
\* Unify whose variables have become one cell.
C31_Witness ==
    /\ result.call = "step" /\ result.ret.some
    /\ VLen(puzzle.constraints) >= 2
    /\ \E cidx \in DOMAIN puzzle.constraints :
          /\ puzzle.constraints[cidx].type = "Unify"
          /\ result.ret.val.vars[puzzle.constraints[cidx].var1].tag = "Unified"
\* ------------------------------------------------------------------------
\* C32: no lost wake-up: whenever the effective candidate set of a variable
\* changes or the variable becomes Assigned (through set_candidate,
\* remove_candidate, bound_candidate_range, assign, or the intersection
\* inside unify), every propagator that watches the variable under the
\* current propagator list is in the wake-set afterwards, and propagation
\* does not finish successfully until on_updated of each such propagator has
\* been called after the change.
\* ------------------------------------------------------------------------
\* The variables whose values left, or whose being Assigned, differ between
\* two search states.
Changed(w, w2) ==
    {x \in DOMAIN w.vars :
        \/ EffectiveValues(w, x) # EffectiveValues(w2, x)
        \/ is_assigned(w, x) # is_assigned(w2, x)}
\* Every constraint that watches a changed variable is in the given set.
WatchersIn(w, w2, awake) == \A x \in Changed(w, w2) : w2.cons.wake[x] \subseteq awake
Woken(w, w2) == WatchersIn(w, w2, w2.wake)
\* What the calls that change a domain leave of the state w, panics apart.
Mutated(w) ==
    {r.w : r \in {r \in {set_candidate(w, x, val) : x \in DOMAIN w.vars, val \in 1..MaxVal}
                         \cup {remove_candidate(w, x, val) :
                                  x \in DOMAIN w.vars, val \in 1..MaxVal} :
                     r.st # "panic"}}
    \cup {b.w : b \in {b \in {bound_candidate_range(w, x, lo, hi) :
                                 x \in DOMAIN w.vars, lo \in 1..MaxVal, hi \in 1..MaxVal} :
                         b.st # "panic"}}
\* What assign leaves when it gives an Unassigned variable one of its
\* candidates.
AssignedFrom(w) ==
    UNION {{r.w : r \in {r \in {assign(w, x, val) :
                                   val \in Candidates_iter(w.heap, w.vars[x].cs)} :
                             r.st # "panic"}} :
              x \in {x \in DOMAIN w.vars : w.vars[x].tag = "Unassigned"}}
\* What unify leaves when called on two variables that are not Unified.
UnifiedFrom(w) ==
    {r.w : r \in {r \in {unify(w, ab[1], ab[2]) :
                            ab \in {ab \in (DOMAIN w.vars) \X (DOMAIN w.vars) :
                                       /\ w.vars[ab[1]].tag # "Unified"
                                       /\ w.vars[ab[2]].tag # "Unified"}} :
                     r.st # "panic"}}
WakesWatchers ==
    \A w \in SearchStates :
        \A w2 \in Mutated(w) \cup AssignedFrom(w) \cup UnifiedFrom(w) : Woken(w, w2)
\* A step of constrain or of the for loop of solve that goes on with a state
\* keeps in wake, or in the local copy being applied, every constraint that
\* was awake and was not fired, and every watcher of a variable the step has
\* changed.
KeepsAwake ==
    (stack # <<>> /\ stack' # stack /\ Len(stack') >= Len(stack)) =>
        LET f == Top
            f2 == stack'[Len(stack')]
            w == TopSearch
            w2 == Search(f2, heap', Len(stack'))
        IN CASE Len(stack') > Len(stack) -> Woken(w, w2)
             [] f.pc = "constrain" /\ f.wake # {} ->
                   /\ f.wake \subseteq f2.wake \cup f2.pending
                   /\ WatchersIn(w, w2, f2.wake \cup f2.pending)
             [] f.pc = "apply" ->
                   /\ f.wake \subseteq f2.wake
                   /\ f2.pending = f.pending \ {Min(f.pending)}
                   /\ Woken(w, w2)
             [] OTHER -> Changed(w, w2) = {}
C32_NoLostWake ==
    /\ [](WakesWatchers /\ EndsDrained)
    /\ [][KeepsAwake]_vars
\* A constraint being applied has shrunk a variable that a constraint fired
\* earlier in the round watches, which is awake again.
C32_Witness ==
    /\ Running /\ Top.pc = "apply"
    /\ \E cidx \in Top.wake : cidx < Min(Top.pending)
\* ------------------------------------------------------------------------
\* C33: within the propagate phase each round runs the gimme sweep to
\* completion before any on_updated call, then fires the propagators of the
\* drained wake-set in ascending propagator index; a propagator woken during
\* the round that was not in the drained copy is not fired until the next
\* round, which again begins with a gimme sweep; the first propagator
\* failure ends the phase with a contradiction.
\* ------------------------------------------------------------------------
\* The sweep has nothing left to do: every Unassigned variable has two
\* candidates or more.
Swept(w) ==
    \A idx \in DOMAIN w.vars :
        w.vars[idx].tag = "Unassigned" => Candidates_len(w.heap, w.vars[idx].cs) >= 2
\* The outcomes on_updated of the next constraint of the local copy can have.
FireOutcomes(f, w) ==
    {on_updated(f.cons.constraints[Min(f.pending)], w, order).st :
        order \in HashOrders(f.cons.constraints[Min(f.pending)], w)}
\* The running call has ended at this step and returned a contradiction, or
\* the frame below has taken over.
Failed ==
    /\ Len(stack') = Len(stack) - 1
    /\ solutions' = IF stack' = <<>> THEN <<>> ELSE solutions
    /\ stack' = <<>> => result'.ret = ReturnValue(call, solutions)
RoundOrder ==
    (stack # <<>> /\ stack' # stack /\ ~panicked') =>
        LET f == Top
            f2 == stack'[Len(stack)]
        IN CASE f.pc = "constrain" /\ f.wake # {} ->
                   \/ /\ Len(stack') = Len(stack)
                      /\ f2.pc = "apply" /\ f2.wake = {} /\ f2.pending # {}
                      /\ Swept(Search(f2, heap', Len(stack)))
                   \/ Failed
             [] f.pc = "apply" ->
                   \/ /\ Len(stack') = Len(stack)
                      /\ "ok" \in FireOutcomes(f, TopSearch)
                      /\ f2.pending = f.pending \ {Min(f.pending)}
                      /\ \A cidx \in f2.pending : cidx > Min(f.pending)
                      /\ f2.pc = IF f2.pending = {} THEN "constrain" ELSE "apply"
                   \/ /\ "err" \in FireOutcomes(f, TopSearch)
                      /\ Failed
             [] OTHER -> TRUE
\* on_updated is called only inside a round, and a round that cannot go on
\* without a failure does not.
RoundStates ==
    \A d \in DOMAIN stack :
        /\ stack[d].pc = "apply" => (d = Len(stack) /\ stack[d].pending # {})
        /\ stack[d].pc # "apply" => stack[d].pending = {}
C33_Rounds == []RoundStates /\ [][RoundOrder]_vars
\* Below a branch, a round has swept the variables and holds two constraints
\* in its local copy, the first of which is fired next.
C33_Witness ==
    /\ Running /\ Len(stack) >= 2 /\ Top.pc = "apply"
    /\ Cardinality(Top.pending) >= 2
    /\ Swept(TopSearch)
\* ------------------------------------------------------------------------
\* C34: each domain mutation of a search state returns a contradiction
\* exactly when it would leave the variable (followed through redirects)
\* with no admissible value, and ok otherwise: set_candidate(var, val)
\* succeeds iff val is a candidate of var, or its assigned or fixed value,
\* and then leaves {val}; remove_candidate(var, val) fails iff var is
\* assigned or fixed to val or val was its last candidate;
\* bound_candidate_range(var, lo, hi) fails iff no candidate lies in
\* [lo, hi] and otherwise returns the new (min, max). A Fixed or Assigned
\* value is never altered by any of them.
\* ------------------------------------------------------------------------
\* The cells that are Assigned, or Unassigned with a fixed value, are in w2
\* what they are in w.
KeepsFixed(w, w2) ==
    \A x \in DOMAIN w.vars :
        (w.vars[x].tag = "Assigned"
            \/ (w.vars[x].tag = "Unassigned" /\ w.vars[x].cs.kind = "Value"))
        => w2.vars[x] = w.vars[x]
\* A call that was to leave the values in left has returned a contradiction
\* when none is left and has otherwise left just these.
MutationOutcome(w, var, r, left) ==
    /\ r.st = (IF left = {} THEN "err" ELSE "ok")
    /\ r.st = "ok" => EffectiveValues(r.w, var) = left
    /\ KeepsFixed(w, r.w)
InRangeOf(set, lo, hi) == {v \in set : lo <= v /\ v <= hi}
MutationOutcomes(w, var) ==
    LET now == EffectiveValues(w, var) IN
    /\ \A val \in 1..MaxVal :
          /\ MutationOutcome(w, var, set_candidate(w, var, val), now \cap {val})
          /\ MutationOutcome(w, var, remove_candidate(w, var, val), now \ {val})
    /\ \A lo, hi \in 0..(MaxVal + 1) :
          \A b \in {bound_candidate_range(w, var, lo, hi)} :
             /\ MutationOutcome(w, var, b, InRangeOf(now, lo, hi))
             /\ b.st = "ok" => /\ b.min = Min(InRangeOf(now, lo, hi))
                               /\ b.max = Max(InRangeOf(now, lo, hi))
C34_Mutations ==
    \A w \in SearchStates : \A var \in DOMAIN w.vars : MutationOutcomes(w, var)
\* The same of the variables that have a value left, and of those that have
\* none except for bound_candidate_range on an empty set, which panics.
MutationsOfInhabited ==
    \A w \in SearchStates : \A var \in DOMAIN w.vars :
        IF EffectiveValues(w, var) # {}
        THEN MutationOutcomes(w, var)
        ELSE /\ \A val \in 1..MaxVal :
                  /\ set_candidate(w, var, val).st = "err"
                  /\ remove_candidate(w, var, val).st = "err"
             /\ \A lo, hi \in 0..(MaxVal + 1) :
                  bound_candidate_range(w, var, lo, hi).st
                     = (IF Cell(w, var).cs.kind = "Set" THEN "panic" ELSE "err")
\* ------------------------------------------------------------------------
\* C35: every step, solve_any, solve_unique and solve_all call on a puzzle
\* with finitely many finite-domain variables and only all_different, equals
\* and unify constraints terminates: the gimme sweep, the Equality
\* round-robin, the wake-set loop and the branching recursion each
\* eventually reach completion or contradiction.
\* ------------------------------------------------------------------------
\* A running call has a next step to take: the code is at the top of the
\* while loop of constrain, inside the for loop over a copy of wake that is
\* not used up, or in the for loop of solve.
StepReady ==
    call # "none" =>
        /\ ~panicked
        /\ stack # <<>>
        /\ Top.pc \in {"constrain", "apply", "loop", "after"}
        /\ Top.pc = "apply" => Top.pending # {}
        /\ call = "step" => Len(stack) = 1 /\ Top.pc \in {"constrain", "apply"}
Returns == (call # "none") ~> (call = "none" /\ result.call # "none" /\ ~panicked)
C35_Terminates == []StepReady /\ Returns
\* A solve_all call has returned after a search that made guesses and ran
\* an equation among its constraints.
C35_Witness ==
    /\ call = "none" /\ result.call = "solve_all"
    /\ puzzle.num_guesses >= 2
    /\ \E cidx \in DOMAIN puzzle.constraints : puzzle.constraints[cidx].type = "Equality"
\* ------------------------------------------------------------------------
\* C36: within one search branch the effective candidate set of a variable
\* (followed through redirects, an Assigned value counting as a singleton)
\* only ever shrinks: no propagation, gimme, branch assignment or
\* unification adds a value that was absent from the earlier domain of the
\* variable, so every value in a Solution belongs to the initial candidates
\* of that variable in the Puzzle.
\* ------------------------------------------------------------------------
\* No variable has in w2 a value that it has not in w.
Shrunk(w, w2) ==
    \A x \in DOMAIN w.vars : EffectiveValues(w2, x) \subseteq EffectiveValues(w, x)
\* What a successful unify of two variables that are not Unified leaves of
\* the state w.
UnifiedOk(w) ==
    {r.w : r \in {r \in {unify(w, ab[1], ab[2]) :
                            ab \in {ab \in (DOMAIN w.vars) \X (DOMAIN w.vars) :
                                       /\ w.vars[ab[1]].tag # "Unified"
                                       /\ w.vars[ab[2]].tag # "Unified"}} :
                     r.st = "ok"}}
\* A step of the search that goes on with the state, or with a clone of it
\* one level down, adds no value to any variable.
StepShrinks ==
    (stack # <<>> /\ Len(stack') >= Len(stack)) =>
        Shrunk(TopSearch, Search(stack'[Len(stack')], heap', Len(stack')))
\* Every live state has only values of the initial candidates, and so has
\* every Solution.
WithinInitial ==
    /\ \A w \in SearchStates : \A x \in DOMAIN w.vars :
          EffectiveValues(w, x) \subseteq InitialCandidates(x)
    /\ \A sol \in Returned \cup SeqRange(solutions) :
          \A x \in DOMAIN sol : sol[x] \in InitialCandidates(x)
\* The calls that change a domain add no value.
CallsShrink ==
    \A w \in SearchStates :
        /\ \A x \in DOMAIN w.vars : \A m \in Mutations(w, x) : Shrunk(w, m)
        /\ \A w2 \in UnifiedOk(w) : Shrunk(w, w2)
C36_OnlyShrinks ==
    /\ [](WithinInitial /\ CallsShrink)
    /\ [][StepShrinks]_vars
\* What does hold: the steps of the search add no value, nor do
\* set_candidate, remove_candidate and bound_candidate_range, nor unify when
\* neither variable is without candidates or fixed; every live state and
\* every Solution has only values of the initial candidates.
HasSet(w, x) ==
    w.vars[x].tag = "Assigned"
       \/ (w.vars[x].tag = "Unassigned" /\ w.vars[x].cs.kind = "Set")
SetCallsShrink ==
    \A w \in SearchStates :
        /\ \A x \in DOMAIN w.vars : \A m \in Mutations(w, x) : Shrunk(w, m)
        /\ \A ab \in {ab \in (DOMAIN w.vars) \X (DOMAIN w.vars) :
                          HasSet(w, ab[1]) /\ HasSet(w, ab[2])} :
              \A r \in {unify(w, ab[1], ab[2])} : r.st = "ok" => Shrunk(w, r.w)
SearchOnlyShrinks ==
    /\ [](WithinInitial /\ SetCallsShrink)
    /\ [][StepShrinks]_vars
\* ------------------------------------------------------------------------
\* C37: assignment is stable within a branch: once is_assigned(var) is true
\* with get_assigned(var) = v (following redirects), both remain so in every
\* later state of that branch, including after any unification involving
\* var, so indexing the search state by var never panics once var has been
\* assigned.
\* ------------------------------------------------------------------------
\* The variables that have a value in w have it in w2, where indexing by
\* them gives it.
StaysAssigned(w, w2) ==
    \A x \in DOMAIN w.vars :
        is_assigned(w, x) =>
            /\ is_assigned(w2, x)
            /\ get_assigned(w2, x) = get_assigned(w, x)
            /\ Index(w2, x) = get_assigned(w, x)
StepKeepsAssigned ==
    (stack # <<>> /\ Len(stack') >= Len(stack)) =>
        StaysAssigned(TopSearch, Search(stack'[Len(stack')], heap', Len(stack')))
CallsKeepAssigned ==
    \A w \in SearchStates :
        /\ \A x \in DOMAIN w.vars : \A m \in Mutations(w, x) : StaysAssigned(w, m)
        /\ \A w2 \in UnifiedOk(w) : StaysAssigned(w, w2)
C37_AssignmentStable == []CallsKeepAssigned /\ [][StepKeepsAssigned]_vars
\* What does hold: a variable that has a value keeps it as the one value
\* left to it; set_candidate, remove_candidate and bound_candidate_range
\* leave it Assigned.
KeepsValue(w, w2) ==
    \A x \in DOMAIN w.vars :
        is_assigned(w, x) => EffectiveValues(w2, x) = {get_assigned(w, x).val}
StepKeepsValue ==
    (stack # <<>> /\ Len(stack') >= Len(stack)) =>
        KeepsValue(TopSearch, Search(stack'[Len(stack')], heap', Len(stack')))
CallsKeepValue ==
    \A w \in SearchStates :
        /\ \A x \in DOMAIN w.vars : \A m \in Mutations(w, x) : StaysAssigned(w, m)
        /\ \A w2 \in UnifiedOk(w) : KeepsValue(w, w2)
ValueStable == []CallsKeepValue /\ [][StepKeepsValue]_vars
====
